---------------------------- MODULE Spec2Model ----------------------------
(***************************************************************************)
(* A model of i.hyper.indices.py: the catalog of spectral indices          *)
(* (HyperspectralIndices._initialize_indices), the band resolver           *)
(* (find_closest_band, can_calculate_index, get_band_mapping), the catalog *)
(* queries (list_indices, get_themes) and the calculation run (main).      *)
(*                                                                         *)
(* Representation.                                                         *)
(*  - A Python str on which the code works character by character (index   *)
(*    names, theme names, option values: upper, lower, strip, split, in,   *)
(*    sorted) is a sequence of one-character strings.  Role names, formula *)
(*    literals and message literals are only compared or concatenated and  *)
(*    are TLA+ strings; a concatenation (an f-string) is the sequence of   *)
(*    its pieces.                                                          *)
(*  - A Python dict is the sequence of its [key, value] items in insertion *)
(*    order, keys unique.  None is the empty sequence.                     *)
(*  - Wavelengths are whole nanometres.  A role requirement is <<lo, hi>>  *)
(*    (a tuple) or <<t>> (a single number, the legacy form).               *)
(***************************************************************************)
EXTENDS Integers, Sequences, FiniteSets, TLC

(***************************************************************************)
(* str                                                                     *)
(***************************************************************************)
LowerCase ==
  <<"a","b","c","d","e","f","g","h","i","j","k","l","m",
    "n","o","p","q","r","s","t","u","v","w","x","y","z">>

UpperCase ==
  <<"A","B","C","D","E","F","G","H","I","J","K","L","M",
    "N","O","P","Q","R","S","T","U","V","W","X","Y","Z">>

Digits == <<"0","1","2","3","4","5","6","7","8","9">>

IsIn(c, s) == \E i \in 1..Len(s) : s[i] = c

PosIn(c, s) == CHOOSE i \in 1..Len(s) : s[i] = c

\* ord(c): the code point, for the characters the model's strings hold
ord(c) ==
  IF IsIn(c, Digits) THEN 47 + PosIn(c, Digits)
  ELSE IF IsIn(c, UpperCase) THEN 64 + PosIn(c, UpperCase)
  ELSE IF IsIn(c, LowerCase) THEN 96 + PosIn(c, LowerCase)
  ELSE IF c = " " THEN 32
  ELSE IF c = "," THEN 44
  ELSE IF c = "." THEN 46
  ELSE 95

\* the upper-case letter of each lower-case letter, and the reverse
to_upper == [c \in {LowerCase[i] : i \in 1..26} |-> UpperCase[PosIn(c, LowerCase)]]

to_lower == [c \in {UpperCase[i] : i \in 1..26} |-> LowerCase[PosIn(c, UpperCase)]]

upper_char(c) == IF c \in DOMAIN to_upper THEN to_upper[c] ELSE c

lower_char(c) == IF c \in DOMAIN to_lower THEN to_lower[c] ELSE c

\* str.upper()
upper(s) == [i \in 1..Len(s) |-> upper_char(s[i])]

\* str.lower()
lower(s) == [i \in 1..Len(s) |-> lower_char(s[i])]

\* str.strip(): leading and trailing whitespace removed
RECURSIVE lstrip(_)
lstrip(s) == IF s # <<>> /\ Head(s) = " " THEN lstrip(Tail(s)) ELSE s

RECURSIVE rstrip(_)
rstrip(s) ==
  IF s # <<>> /\ s[Len(s)] = " " THEN rstrip(SubSeq(s, 1, Len(s) - 1)) ELSE s

strip(s) == rstrip(lstrip(s))

\* str.split(','): the pieces between the commas, empty pieces kept
RECURSIVE split_from(_, _, _)
split_from(s, piece, done) ==
  IF s = <<>> THEN Append(done, piece)
  ELSE IF Head(s) = "," THEN split_from(Tail(s), <<>>, Append(done, piece))
  ELSE split_from(Tail(s), Append(piece, Head(s)), done)

split(s) == split_from(s, <<>>, <<>>)

\* a < b for str: lexicographic by code point
str_less(a, b) ==
  \E k \in 1..(Len(b)) :
    /\ \A i \in 1..(k - 1) : i <= Len(a) /\ a[i] = b[i]
    /\ \/ k > Len(a)
       \/ k <= Len(a) /\ ord(a[k]) < ord(b[k])

\* sub in s
contains(s, sub) ==
  \E k \in 0..(Len(s) - Len(sub)) : SubSeq(s, k + 1, k + Len(sub)) = sub

\* float(s): a decimal literal without sign, point or exponent (surrounding
\* whitespace allowed) has its value; any other string over the model's
\* alphabet raises ValueError
RECURSIVE digits_value(_, _)
digits_value(s, acc) ==
  IF s = <<>> THEN acc
  ELSE digits_value(Tail(s), 10 * acc + (PosIn(Head(s), Digits) - 1))

float_raises(s) ==
  LET t == strip(s) IN ~(t # <<>> /\ \A i \in 1..Len(t) : IsIn(t[i], Digits))

float(s) == digits_value(strip(s), 0)

abs(x) == IF x < 0 THEN -x ELSE x

(***************************************************************************)
(* dict                                                                    *)
(***************************************************************************)
None == <<>>

\* the one value of a one-element set: the({e(x) : x \in {v}}) is e(v), with v
\* evaluated once
the(S) == CHOOSE x \in S : TRUE

\* k in d
has_key(d, k) == \E key \in {k} : \E i \in 1..Len(d) : d[i].key = key

\* d[k], for a key of d (KeyError otherwise)
item(d, k) == the({d[CHOOSE i \in 1..Len(d) : d[i].key = key].value : key \in {k}})

\* d.get(k)
get(d, k) == IF has_key(d, k) THEN item(d, k) ELSE None

\* a slip: a key already present keeps the value it has
set_item_first_wins(d, k, v) ==
  IF has_key(d, k) THEN d ELSE Append(d, [key |-> k, value |-> v])

\* d[k] = v: an existing key keeps its place and takes the new value
set_item(d, k, v) ==
  the({IF \E i \in 1..Len(dict) : dict[i].key = it.key
       THEN [i \in 1..Len(dict) |-> IF dict[i].key = it.key THEN it ELSE dict[i]]
       ELSE Append(dict, it) :
       dict \in {d}, it \in {[key |-> k, value |-> v]}})

keys(d) == [i \in 1..Len(d) |-> d[i].key]

\* dict(zip(ks, vs)): pairs up to the shorter of the two
RECURSIVE dict_zip(_, _, _)
dict_zip(d, ks, vs) ==
  IF ks = <<>> \/ vs = <<>> THEN d
  ELSE dict_zip(set_item(d, Head(ks), Head(vs)), Tail(ks), Tail(vs))

(***************************************************************************)
(* The catalog: HyperspectralIndices._initialize_indices                   *)
(***************************************************************************)
\* a piece of a formula's f-string: literal text, or b['ROLE']
Lit(s) == [lit |-> s, role |-> ""]

Ref(r) == [lit |-> "", role |-> r]

\* the assignments self.indices_db[key] = SpectralIndex(...), in source order
initialize_indices ==
  <<
  (* NDVI, line 230 *)
  [key |-> <<"N","D","V","I">>,
   value |-> [name |-> <<"N","D","V","I">>,
              formula |-> <<Lit("float("), Ref("NIR"), Lit(" - "), Ref("RED"), Lit(") / ("), Ref("NIR"), Lit(" + "), Ref("RED"), Lit(")")>>,
              bands_required |-> <<[role |-> "RED", range |-> <<620, 690>>], [role |-> "NIR", range |-> <<760, 900>>]>>,
              theme |-> <<"v","e","g","e","t","a","t","i","o","n">>,
              normalize_range |-> <<-1, 1>>]],
  (* EVI, line 240 *)
  [key |-> <<"E","V","I">>,
   value |-> [name |-> <<"E","V","I">>,
              formula |-> <<Lit("2.5 * ("), Ref("NIR"), Lit(" - "), Ref("RED"), Lit(") / ("), Ref("NIR"), Lit(" + 6 * "), Ref("RED"), Lit(" - 7.5 * "), Ref("BLUE"), Lit(" + 1)")>>,
              bands_required |-> <<[role |-> "BLUE", range |-> <<450, 520>>], [role |-> "RED", range |-> <<620, 690>>], [role |-> "NIR", range |-> <<760, 900>>]>>,
              theme |-> <<"v","e","g","e","t","a","t","i","o","n">>,
              normalize_range |-> <<-1, 1>>]],
  (* SAVI, line 250 *)
  [key |-> <<"S","A","V","I">>,
   value |-> [name |-> <<"S","A","V","I">>,
              formula |-> <<Lit("((1 + 0.5) * ("), Ref("NIR"), Lit(" - "), Ref("RED"), Lit(")) / ("), Ref("NIR"), Lit(" + "), Ref("RED"), Lit(" + 0.5)")>>,
              bands_required |-> <<[role |-> "RED", range |-> <<620, 690>>], [role |-> "NIR", range |-> <<760, 900>>]>>,
              theme |-> <<"v","e","g","e","t","a","t","i","o","n">>,
              normalize_range |-> <<-1, 1>>]],
  (* MSAVI, line 260 *)
  [key |-> <<"M","S","A","V","I">>,
   value |-> [name |-> <<"M","S","A","V","I">>,
              formula |-> <<Lit("(2 * "), Ref("NIR"), Lit(" + 1 - sqrt((2 * "), Ref("NIR"), Lit(" + 1)^2 - 8 * ("), Ref("NIR"), Lit(" - "), Ref("RED"), Lit("))) / 2")>>,
              bands_required |-> <<[role |-> "RED", range |-> <<620, 690>>], [role |-> "NIR", range |-> <<760, 900>>]>>,
              theme |-> <<"v","e","g","e","t","a","t","i","o","n">>,
              normalize_range |-> <<>>]],
  (* GNDVI, line 269 *)
  [key |-> <<"G","N","D","V","I">>,
   value |-> [name |-> <<"G","N","D","V","I">>,
              formula |-> <<Lit("float("), Ref("NIR"), Lit(" - "), Ref("GREEN"), Lit(") / ("), Ref("NIR"), Lit(" + "), Ref("GREEN"), Lit(")")>>,
              bands_required |-> <<[role |-> "GREEN", range |-> <<520, 600>>], [role |-> "NIR", range |-> <<760, 900>>]>>,
              theme |-> <<"v","e","g","e","t","a","t","i","o","n">>,
              normalize_range |-> <<-1, 1>>]],
  (* NDRE, line 279 *)
  [key |-> <<"N","D","R","E">>,
   value |-> [name |-> <<"N","D","R","E">>,
              formula |-> <<Lit("float("), Ref("NIR"), Lit(" - "), Ref("REDEDGE"), Lit(") / ("), Ref("NIR"), Lit(" + "), Ref("REDEDGE"), Lit(")")>>,
              bands_required |-> <<[role |-> "REDEDGE", range |-> <<690, 730>>], [role |-> "NIR", range |-> <<760, 900>>]>>,
              theme |-> <<"v","e","g","e","t","a","t","i","o","n">>,
              normalize_range |-> <<-1, 1>>]],
  (* CIrededge, line 289 *)
  [key |-> <<"C","I","r","e","d","e","d","g","e">>,
   value |-> [name |-> <<"C","I","r","e","d","e","d","g","e">>,
              formula |-> <<Lit("("), Ref("NIR"), Lit(" / "), Ref("REDEDGE"), Lit(") - 1")>>,
              bands_required |-> <<[role |-> "REDEDGE", range |-> <<690, 730>>], [role |-> "NIR", range |-> <<760, 900>>]>>,
              theme |-> <<"v","e","g","e","t","a","t","i","o","n">>,
              normalize_range |-> <<>>]],
  (* MTCI, line 298 *)
  [key |-> <<"M","T","C","I">>,
   value |-> [name |-> <<"M","T","C","I">>,
              formula |-> <<Lit("("), Ref("NIR"), Lit(" - "), Ref("REDEDGE"), Lit(") / ("), Ref("REDEDGE"), Lit(" - "), Ref("RED"), Lit(")")>>,
              bands_required |-> <<[role |-> "RED", range |-> <<620, 690>>], [role |-> "REDEDGE", range |-> <<690, 730>>], [role |-> "NIR", range |-> <<760, 900>>]>>,
              theme |-> <<"v","e","g","e","t","a","t","i","o","n">>,
              normalize_range |-> <<>>]],
  (* MCARI, line 307 *)
  [key |-> <<"M","C","A","R","I">>,
   value |-> [name |-> <<"M","C","A","R","I">>,
              formula |-> <<Lit("(("), Ref("REDEDGE"), Lit(" - "), Ref("RED"), Lit(") - 0.2 * ("), Ref("REDEDGE"), Lit(" - "), Ref("GREEN"), Lit(")) * ("), Ref("REDEDGE"), Lit(" / "), Ref("RED"), Lit(")")>>,
              bands_required |-> <<[role |-> "GREEN", range |-> <<520, 600>>], [role |-> "RED", range |-> <<620, 690>>], [role |-> "REDEDGE", range |-> <<690, 730>>]>>,
              theme |-> <<"v","e","g","e","t","a","t","i","o","n">>,
              normalize_range |-> <<>>]],
  (* REIP, line 316 *)
  [key |-> <<"R","E","I","P">>,
   value |-> [name |-> <<"R","E","I","P">>,
              formula |-> <<Lit("700 + 40 * ((("), Ref("RED"), Lit(" + "), Ref("NIR"), Lit(") / 2) - "), Ref("RE1"), Lit(") / ("), Ref("RE2"), Lit(" - "), Ref("RE1"), Lit(")")>>,
              bands_required |-> <<[role |-> "RED", range |-> <<620, 690>>], [role |-> "RE1", range |-> <<697, 712>>], [role |-> "RE2", range |-> <<732, 748>>], [role |-> "NIR", range |-> <<760, 900>>]>>,
              theme |-> <<"v","e","g","e","t","a","t","i","o","n">>,
              normalize_range |-> <<>>]],
  (* ARVI, line 325 *)
  [key |-> <<"A","R","V","I">>,
   value |-> [name |-> <<"A","R","V","I">>,
              formula |-> <<Lit("("), Ref("NIR"), Lit(" - (2 * "), Ref("RED"), Lit(" - "), Ref("BLUE"), Lit(")) / ("), Ref("NIR"), Lit(" + (2 * "), Ref("RED"), Lit(" - "), Ref("BLUE"), Lit("))")>>,
              bands_required |-> <<[role |-> "BLUE", range |-> <<450, 520>>], [role |-> "RED", range |-> <<620, 690>>], [role |-> "NIR", range |-> <<760, 900>>]>>,
              theme |-> <<"v","e","g","e","t","a","t","i","o","n">>,
              normalize_range |-> <<>>]],
  (* VARI, line 334 *)
  [key |-> <<"V","A","R","I">>,
   value |-> [name |-> <<"V","A","R","I">>,
              formula |-> <<Lit("("), Ref("GREEN"), Lit(" - "), Ref("RED"), Lit(") / ("), Ref("GREEN"), Lit(" + "), Ref("RED"), Lit(" - "), Ref("BLUE"), Lit(")")>>,
              bands_required |-> <<[role |-> "BLUE", range |-> <<450, 520>>], [role |-> "GREEN", range |-> <<520, 600>>], [role |-> "RED", range |-> <<620, 690>>]>>,
              theme |-> <<"v","e","g","e","t","a","t","i","o","n">>,
              normalize_range |-> <<>>]],
  (* DVI, line 343 *)
  [key |-> <<"D","V","I">>,
   value |-> [name |-> <<"D","V","I">>,
              formula |-> <<Ref("NIR"), Lit(" - "), Ref("RED")>>,
              bands_required |-> <<[role |-> "RED", range |-> <<620, 690>>], [role |-> "NIR", range |-> <<760, 900>>]>>,
              theme |-> <<"v","e","g","e","t","a","t","i","o","n">>,
              normalize_range |-> <<>>]],
  (* TVI, line 352 *)
  [key |-> <<"T","V","I">>,
   value |-> [name |-> <<"T","V","I">>,
              formula |-> <<Lit("0.5 * (120 * ("), Ref("NIR"), Lit(" - "), Ref("GREEN"), Lit(") - 200 * ("), Ref("RED"), Lit(" - "), Ref("GREEN"), Lit("))")>>,
              bands_required |-> <<[role |-> "GREEN", range |-> <<520, 600>>], [role |-> "RED", range |-> <<620, 690>>], [role |-> "NIR", range |-> <<760, 900>>]>>,
              theme |-> <<"v","e","g","e","t","a","t","i","o","n">>,
              normalize_range |-> <<>>]],
  (* ARI1, line 366 *)
  [key |-> <<"A","R","I","1">>,
   value |-> [name |-> <<"A","R","I","1">>,
              formula |-> <<Lit("(1 / "), Ref("GREEN"), Lit(") - (1 / "), Ref("REDEDGE"), Lit(")")>>,
              bands_required |-> <<[role |-> "GREEN", range |-> <<520, 600>>], [role |-> "REDEDGE", range |-> <<690, 730>>]>>,
              theme |-> <<"p","i","g","m","e","n","t","s">>,
              normalize_range |-> <<>>]],
  (* ARI2, line 375 *)
  [key |-> <<"A","R","I","2">>,
   value |-> [name |-> <<"A","R","I","2">>,
              formula |-> <<Ref("NIR"), Lit(" * ((1 / "), Ref("GREEN"), Lit(") - (1 / "), Ref("REDEDGE"), Lit("))")>>,
              bands_required |-> <<[role |-> "GREEN", range |-> <<520, 600>>], [role |-> "REDEDGE", range |-> <<690, 730>>], [role |-> "NIR", range |-> <<760, 900>>]>>,
              theme |-> <<"p","i","g","m","e","n","t","s">>,
              normalize_range |-> <<>>]],
  (* CRI550, line 384 *)
  [key |-> <<"C","R","I","5","5","0">>,
   value |-> [name |-> <<"C","R","I","5","5","0">>,
              formula |-> <<Lit("(1 / "), Ref("B510"), Lit(") - (1 / "), Ref("B550"), Lit(")")>>,
              bands_required |-> <<[role |-> "B510", range |-> <<505, 515>>], [role |-> "B550", range |-> <<545, 555>>]>>,
              theme |-> <<"p","i","g","m","e","n","t","s">>,
              normalize_range |-> <<>>]],
  (* CRI700, line 393 *)
  [key |-> <<"C","R","I","7","0","0">>,
   value |-> [name |-> <<"C","R","I","7","0","0">>,
              formula |-> <<Lit("(1 / "), Ref("B510"), Lit(") - (1 / "), Ref("B700"), Lit(")")>>,
              bands_required |-> <<[role |-> "B510", range |-> <<505, 515>>], [role |-> "B700", range |-> <<695, 705>>]>>,
              theme |-> <<"p","i","g","m","e","n","t","s">>,
              normalize_range |-> <<>>]],
  (* CARI, line 402 *)
  [key |-> <<"C","A","R","I">>,
   value |-> [name |-> <<"C","A","R","I">>,
              formula |-> <<Lit("("), Ref("RE700"), Lit(" / "), Ref("RED"), Lit(") * abs((("), Ref("B550"), Lit(" - "), Ref("RED"), Lit(") / "), Ref("RE700"), Lit(") + "), Ref("RED"), Lit(" - "), Ref("B550"), Lit(")")>>,
              bands_required |-> <<[role |-> "B550", range |-> <<545, 555>>], [role |-> "RED", range |-> <<620, 690>>], [role |-> "RE700", range |-> <<695, 705>>]>>,
              theme |-> <<"p","i","g","m","e","n","t","s">>,
              normalize_range |-> <<>>]],
  (* MCARIOSAVI, line 411 *)
  [key |-> <<"M","C","A","R","I","O","S","A","V","I">>,
   value |-> [name |-> <<"M","C","A","R","I","O","S","A","V","I">>,
              formula |-> <<Lit("((("), Ref("RE700"), Lit(" - "), Ref("RED"), Lit(") - 0.2 * ("), Ref("RE700"), Lit(" - "), Ref("GREEN"), Lit(")) * ("), Ref("RE700"), Lit(" / "), Ref("RED"), Lit(")) / ((1.16 * ("), Ref("NIR"), Lit(" - "), Ref("RED"), Lit(") / ("), Ref("NIR"), Lit(" + "), Ref("RED"), Lit(" + 0.16)))")>>,
              bands_required |-> <<[role |-> "GREEN", range |-> <<520, 600>>], [role |-> "RED", range |-> <<620, 690>>], [role |-> "RE700", range |-> <<695, 705>>], [role |-> "NIR", range |-> <<760, 900>>]>>,
              theme |-> <<"p","i","g","m","e","n","t","s">>,
              normalize_range |-> <<>>]],
  (* GITELSON, line 420 *)
  [key |-> <<"G","I","T","E","L","S","O","N">>,
   value |-> [name |-> <<"G","I","T","E","L","S","O","N">>,
              formula |-> <<Lit("("), Ref("NIR"), Lit(" / "), Ref("GREEN"), Lit(") - 1")>>,
              bands_required |-> <<[role |-> "GREEN", range |-> <<520, 600>>], [role |-> "NIR", range |-> <<760, 900>>]>>,
              theme |-> <<"p","i","g","m","e","n","t","s">>,
              normalize_range |-> <<>>]],
  (* GITELSON2, line 429 *)
  [key |-> <<"G","I","T","E","L","S","O","N","2">>,
   value |-> [name |-> <<"G","I","T","E","L","S","O","N","2">>,
              formula |-> <<Lit("("), Ref("NIR"), Lit(" / "), Ref("REDEDGE"), Lit(") - 1")>>,
              bands_required |-> <<[role |-> "REDEDGE", range |-> <<690, 730>>], [role |-> "NIR", range |-> <<760, 900>>]>>,
              theme |-> <<"p","i","g","m","e","n","t","s">>,
              normalize_range |-> <<>>]],
  (* MCARI1, line 438 *)
  [key |-> <<"M","C","A","R","I","1">>,
   value |-> [name |-> <<"M","C","A","R","I","1">>,
              formula |-> <<Lit("1.2 * (2.5 * ("), Ref("NIR"), Lit(" - "), Ref("RED"), Lit(") - 1.3 * ("), Ref("NIR"), Lit(" - "), Ref("GREEN"), Lit("))")>>,
              bands_required |-> <<[role |-> "GREEN", range |-> <<520, 600>>], [role |-> "RED", range |-> <<620, 690>>], [role |-> "NIR", range |-> <<760, 900>>]>>,
              theme |-> <<"p","i","g","m","e","n","t","s">>,
              normalize_range |-> <<>>]],
  (* MCARI2, line 447 *)
  [key |-> <<"M","C","A","R","I","2">>,
   value |-> [name |-> <<"M","C","A","R","I","2">>,
              formula |-> <<Lit("(1.5 * (2.5 * ("), Ref("NIR"), Lit(" - "), Ref("RED"), Lit(") - 1.3 * ("), Ref("NIR"), Lit(" - "), Ref("GREEN"), Lit("))) / sqrt((2 * "), Ref("NIR"), Lit(" + 1)^2 - (6 * "), Ref("NIR"), Lit(" - 5 * sqrt("), Ref("RED"), Lit(")) - 0.5)")>>,
              bands_required |-> <<[role |-> "GREEN", range |-> <<520, 600>>], [role |-> "RED", range |-> <<620, 690>>], [role |-> "NIR", range |-> <<760, 900>>]>>,
              theme |-> <<"p","i","g","m","e","n","t","s">>,
              normalize_range |-> <<>>]],
  (* RDVI, line 456 *)
  [key |-> <<"R","D","V","I">>,
   value |-> [name |-> <<"R","D","V","I">>,
              formula |-> <<Lit("("), Ref("NIR"), Lit(" - "), Ref("RED"), Lit(") / sqrt("), Ref("NIR"), Lit(" + "), Ref("RED"), Lit(")")>>,
              bands_required |-> <<[role |-> "RED", range |-> <<620, 690>>], [role |-> "NIR", range |-> <<760, 900>>]>>,
              theme |-> <<"p","i","g","m","e","n","t","s">>,
              normalize_range |-> <<>>]],
  (* MARI, line 465 *)
  [key |-> <<"M","A","R","I">>,
   value |-> [name |-> <<"M","A","R","I">>,
              formula |-> <<Lit("((1 / "), Ref("GREEN"), Lit(") - (1 / "), Ref("REDEDGE"), Lit(")) * "), Ref("NIR")>>,
              bands_required |-> <<[role |-> "GREEN", range |-> <<520, 600>>], [role |-> "REDEDGE", range |-> <<690, 730>>], [role |-> "NIR", range |-> <<760, 900>>]>>,
              theme |-> <<"p","i","g","m","e","n","t","s">>,
              normalize_range |-> <<>>]],
  (* VREI1, line 474 *)
  [key |-> <<"V","R","E","I","1">>,
   value |-> [name |-> <<"V","R","E","I","1">>,
              formula |-> <<Ref("RE740"), Lit(" / "), Ref("RE720")>>,
              bands_required |-> <<[role |-> "RE720", range |-> <<715, 725>>], [role |-> "RE740", range |-> <<735, 745>>]>>,
              theme |-> <<"p","i","g","m","e","n","t","s">>,
              normalize_range |-> <<>>]],
  (* VREI2, line 483 *)
  [key |-> <<"V","R","E","I","2">>,
   value |-> [name |-> <<"V","R","E","I","2">>,
              formula |-> <<Lit("("), Ref("RE734"), Lit(" - "), Ref("RE747"), Lit(") / ("), Ref("RE715"), Lit(" + "), Ref("RE726"), Lit(")")>>,
              bands_required |-> <<[role |-> "RE715", range |-> <<710, 720>>], [role |-> "RE726", range |-> <<721, 731>>], [role |-> "RE734", range |-> <<729, 739>>], [role |-> "RE747", range |-> <<742, 752>>]>>,
              theme |-> <<"p","i","g","m","e","n","t","s">>,
              normalize_range |-> <<>>]],
  (* DD, line 492 *)
  [key |-> <<"D","D">>,
   value |-> [name |-> <<"D","D">>,
              formula |-> <<Lit("("), Ref("RE749"), Lit(" - "), Ref("RE720"), Lit(") - ("), Ref("RE701"), Lit(" - "), Ref("RE672"), Lit(")")>>,
              bands_required |-> <<[role |-> "RE672", range |-> <<667, 677>>], [role |-> "RE701", range |-> <<696, 706>>], [role |-> "RE720", range |-> <<715, 725>>], [role |-> "RE749", range |-> <<744, 754>>]>>,
              theme |-> <<"p","i","g","m","e","n","t","s">>,
              normalize_range |-> <<>>]],
  (* WI, line 506 *)
  [key |-> <<"W","I">>,
   value |-> [name |-> <<"W","I">>,
              formula |-> <<Ref("B900"), Lit(" / "), Ref("B970")>>,
              bands_required |-> <<[role |-> "B900", range |-> <<895, 905>>], [role |-> "B970", range |-> <<965, 975>>]>>,
              theme |-> <<"m","e","t","a","b","o","l","i","s","m">>,
              normalize_range |-> <<>>]],
  (* NDWI1240, line 515 *)
  [key |-> <<"N","D","W","I","1","2","4","0">>,
   value |-> [name |-> <<"N","D","W","I","1","2","4","0">>,
              formula |-> <<Lit("("), Ref("B860"), Lit(" - "), Ref("B1240"), Lit(") / ("), Ref("B860"), Lit(" + "), Ref("B1240"), Lit(")")>>,
              bands_required |-> <<[role |-> "B860", range |-> <<855, 865>>], [role |-> "B1240", range |-> <<1235, 1245>>]>>,
              theme |-> <<"m","e","t","a","b","o","l","i","s","m">>,
              normalize_range |-> <<>>]],
  (* NDWI2130, line 524 *)
  [key |-> <<"N","D","W","I","2","1","3","0">>,
   value |-> [name |-> <<"N","D","W","I","2","1","3","0">>,
              formula |-> <<Lit("("), Ref("B860"), Lit(" - "), Ref("B2130"), Lit(") / ("), Ref("B860"), Lit(" + "), Ref("B2130"), Lit(")")>>,
              bands_required |-> <<[role |-> "B860", range |-> <<855, 865>>], [role |-> "B2130", range |-> <<2125, 2135>>]>>,
              theme |-> <<"m","e","t","a","b","o","l","i","s","m">>,
              normalize_range |-> <<>>]],
  (* LWCI, line 533 *)
  [key |-> <<"L","W","C","I">>,
   value |-> [name |-> <<"L","W","C","I">>,
              formula |-> <<Lit("log(1 - ("), Ref("B970"), Lit(" - "), Ref("B900"), Lit(")) / log(1 - ("), Ref("B970"), Lit(" - "), Ref("B955"), Lit("))")>>,
              bands_required |-> <<[role |-> "B900", range |-> <<895, 905>>], [role |-> "B955", range |-> <<950, 960>>], [role |-> "B970", range |-> <<965, 975>>]>>,
              theme |-> <<"m","e","t","a","b","o","l","i","s","m">>,
              normalize_range |-> <<>>]],
  (* NDII, line 542 *)
  [key |-> <<"N","D","I","I">>,
   value |-> [name |-> <<"N","D","I","I">>,
              formula |-> <<Lit("("), Ref("B819"), Lit(" - "), Ref("B1649"), Lit(") / ("), Ref("B819"), Lit(" + "), Ref("B1649"), Lit(")")>>,
              bands_required |-> <<[role |-> "B819", range |-> <<814, 824>>], [role |-> "B1649", range |-> <<1644, 1654>>]>>,
              theme |-> <<"m","e","t","a","b","o","l","i","s","m">>,
              normalize_range |-> <<>>]],
  (* SRWI, line 551 *)
  [key |-> <<"S","R","W","I">>,
   value |-> [name |-> <<"S","R","W","I">>,
              formula |-> <<Ref("B860"), Lit(" / "), Ref("B1240")>>,
              bands_required |-> <<[role |-> "B860", range |-> <<855, 865>>], [role |-> "B1240", range |-> <<1235, 1245>>]>>,
              theme |-> <<"m","e","t","a","b","o","l","i","s","m">>,
              normalize_range |-> <<>>]],
  (* DATT, line 560 *)
  [key |-> <<"D","A","T","T">>,
   value |-> [name |-> <<"D","A","T","T">>,
              formula |-> <<Lit("("), Ref("B850"), Lit(" - "), Ref("B710"), Lit(") / ("), Ref("B850"), Lit(" - "), Ref("B680"), Lit(")")>>,
              bands_required |-> <<[role |-> "B680", range |-> <<675, 685>>], [role |-> "B710", range |-> <<705, 715>>], [role |-> "B850", range |-> <<845, 855>>]>>,
              theme |-> <<"m","e","t","a","b","o","l","i","s","m">>,
              normalize_range |-> <<>>]],
  (* CARTER1, line 569 *)
  [key |-> <<"C","A","R","T","E","R","1">>,
   value |-> [name |-> <<"C","A","R","T","E","R","1">>,
              formula |-> <<Ref("B695"), Lit(" / "), Ref("B420")>>,
              bands_required |-> <<[role |-> "B420", range |-> <<415, 425>>], [role |-> "B695", range |-> <<690, 700>>]>>,
              theme |-> <<"m","e","t","a","b","o","l","i","s","m">>,
              normalize_range |-> <<>>]],
  (* CARTER2, line 578 *)
  [key |-> <<"C","A","R","T","E","R","2">>,
   value |-> [name |-> <<"C","A","R","T","E","R","2">>,
              formula |-> <<Ref("B695"), Lit(" / "), Ref("B760")>>,
              bands_required |-> <<[role |-> "B695", range |-> <<690, 700>>], [role |-> "B760", range |-> <<755, 765>>]>>,
              theme |-> <<"m","e","t","a","b","o","l","i","s","m">>,
              normalize_range |-> <<>>]],
  (* GMI, line 587 *)
  [key |-> <<"G","M","I">>,
   value |-> [name |-> <<"G","M","I">>,
              formula |-> <<Ref("B750"), Lit(" / "), Ref("B550")>>,
              bands_required |-> <<[role |-> "B550", range |-> <<545, 555>>], [role |-> "B750", range |-> <<745, 755>>]>>,
              theme |-> <<"m","e","t","a","b","o","l","i","s","m">>,
              normalize_range |-> <<>>]],
  (* NPQI, line 596 *)
  [key |-> <<"N","P","Q","I">>,
   value |-> [name |-> <<"N","P","Q","I">>,
              formula |-> <<Lit("("), Ref("B415"), Lit(" - "), Ref("B435"), Lit(") / ("), Ref("B415"), Lit(" + "), Ref("B435"), Lit(")")>>,
              bands_required |-> <<[role |-> "B415", range |-> <<410, 420>>], [role |-> "B435", range |-> <<430, 440>>]>>,
              theme |-> <<"m","e","t","a","b","o","l","i","s","m">>,
              normalize_range |-> <<>>]],
  (* NPCI, line 605 *)
  [key |-> <<"N","P","C","I">>,
   value |-> [name |-> <<"N","P","C","I">>,
              formula |-> <<Lit("("), Ref("B680"), Lit(" - "), Ref("B430"), Lit(") / ("), Ref("B680"), Lit(" + "), Ref("B430"), Lit(")")>>,
              bands_required |-> <<[role |-> "B430", range |-> <<425, 435>>], [role |-> "B680", range |-> <<675, 685>>]>>,
              theme |-> <<"m","e","t","a","b","o","l","i","s","m">>,
              normalize_range |-> <<>>]],
  (* RGRI, line 614 *)
  [key |-> <<"R","G","R","I">>,
   value |-> [name |-> <<"R","G","R","I">>,
              formula |-> <<Ref("RED"), Lit(" / "), Ref("GREEN")>>,
              bands_required |-> <<[role |-> "GREEN", range |-> <<520, 600>>], [role |-> "RED", range |-> <<620, 690>>]>>,
              theme |-> <<"m","e","t","a","b","o","l","i","s","m">>,
              normalize_range |-> <<>>]],
  (* CAI, line 628 *)
  [key |-> <<"C","A","I">>,
   value |-> [name |-> <<"C","A","I">>,
              formula |-> <<Lit("0.5 * ("), Ref("SWIR1"), Lit(" + "), Ref("SWIR2"), Lit(") - "), Ref("SWIR3")>>,
              bands_required |-> <<[role |-> "SWIR1", range |-> <<2000, 2100>>], [role |-> "SWIR2", range |-> <<2100, 2300>>], [role |-> "SWIR3", range |-> <<2000, 2100>>]>>,
              theme |-> <<"b","i","o","c","h","e","m","i","c","a","l">>,
              normalize_range |-> <<>>]],
  (* NDLI, line 637 *)
  [key |-> <<"N","D","L","I">>,
   value |-> [name |-> <<"N","D","L","I">>,
              formula |-> <<Lit("(log(1/"), Ref("SWIR1"), Lit(") - log(1/"), Ref("SWIR2"), Lit(")) / (log(1/"), Ref("SWIR1"), Lit(") + log(1/"), Ref("SWIR2"), Lit("))")>>,
              bands_required |-> <<[role |-> "SWIR1", range |-> <<1680, 1750>>], [role |-> "SWIR2", range |-> <<1754, 1850>>]>>,
              theme |-> <<"b","i","o","c","h","e","m","i","c","a","l">>,
              normalize_range |-> <<>>]],
  (* PRI, line 646 *)
  [key |-> <<"P","R","I">>,
   value |-> [name |-> <<"P","R","I">>,
              formula |-> <<Lit("("), Ref("GREEN1"), Lit(" - "), Ref("GREEN2"), Lit(") / ("), Ref("GREEN1"), Lit(" + "), Ref("GREEN2"), Lit(")")>>,
              bands_required |-> <<[role |-> "GREEN1", range |-> <<528, 532>>], [role |-> "GREEN2", range |-> <<565, 570>>]>>,
              theme |-> <<"b","i","o","c","h","e","m","i","c","a","l">>,
              normalize_range |-> <<-1, 1>>]],
  (* SIPI, line 656 *)
  [key |-> <<"S","I","P","I">>,
   value |-> [name |-> <<"S","I","P","I">>,
              formula |-> <<Lit("("), Ref("NIR"), Lit(" - "), Ref("BLUE"), Lit(") / ("), Ref("NIR"), Lit(" - "), Ref("RED"), Lit(")")>>,
              bands_required |-> <<[role |-> "BLUE", range |-> <<445, 455>>], [role |-> "RED", range |-> <<620, 690>>], [role |-> "NIR", range |-> <<760, 900>>]>>,
              theme |-> <<"b","i","o","c","h","e","m","i","c","a","l">>,
              normalize_range |-> <<>>]],
  (* PSRI, line 665 *)
  [key |-> <<"P","S","R","I">>,
   value |-> [name |-> <<"P","S","R","I">>,
              formula |-> <<Lit("("), Ref("RED"), Lit(" - "), Ref("GREEN"), Lit(") / "), Ref("REDEDGE")>>,
              bands_required |-> <<[role |-> "GREEN", range |-> <<520, 600>>], [role |-> "RED", range |-> <<620, 690>>], [role |-> "REDEDGE", range |-> <<690, 730>>]>>,
              theme |-> <<"b","i","o","c","h","e","m","i","c","a","l">>,
              normalize_range |-> <<>>]],
  (* NDWI, line 679 *)
  [key |-> <<"N","D","W","I">>,
   value |-> [name |-> <<"N","D","W","I">>,
              formula |-> <<Lit("float("), Ref("GREEN"), Lit(" - "), Ref("NIR"), Lit(") / ("), Ref("GREEN"), Lit(" + "), Ref("NIR"), Lit(")")>>,
              bands_required |-> <<[role |-> "GREEN", range |-> <<520, 600>>], [role |-> "NIR", range |-> <<760, 900>>]>>,
              theme |-> <<"w","a","t","e","r">>,
              normalize_range |-> <<-1, 1>>]],
  (* MNDWI, line 689 *)
  [key |-> <<"M","N","D","W","I">>,
   value |-> [name |-> <<"M","N","D","W","I">>,
              formula |-> <<Lit("float("), Ref("GREEN"), Lit(" - "), Ref("SWIR"), Lit(") / ("), Ref("GREEN"), Lit(" + "), Ref("SWIR"), Lit(")")>>,
              bands_required |-> <<[role |-> "GREEN", range |-> <<520, 600>>], [role |-> "SWIR", range |-> <<1550, 1750>>]>>,
              theme |-> <<"w","a","t","e","r">>,
              normalize_range |-> <<-1, 1>>]],
  (* NDMI, line 699 *)
  [key |-> <<"N","D","M","I">>,
   value |-> [name |-> <<"N","D","M","I">>,
              formula |-> <<Lit("float("), Ref("NIR"), Lit(" - "), Ref("SWIR"), Lit(") / ("), Ref("NIR"), Lit(" + "), Ref("SWIR"), Lit(")")>>,
              bands_required |-> <<[role |-> "NIR", range |-> <<760, 900>>], [role |-> "SWIR", range |-> <<1550, 1750>>]>>,
              theme |-> <<"w","a","t","e","r">>,
              normalize_range |-> <<-1, 1>>]],
  (* BI, line 714 *)
  [key |-> <<"B","I">>,
   value |-> [name |-> <<"B","I">>,
              formula |-> <<Lit("sqrt(("), Ref("RED"), Lit("^2 + "), Ref("GREEN"), Lit("^2) / 2)")>>,
              bands_required |-> <<[role |-> "GREEN", range |-> <<520, 600>>], [role |-> "RED", range |-> <<620, 690>>]>>,
              theme |-> <<"s","o","i","l">>,
              normalize_range |-> <<>>]],
  (* CI, line 723 *)
  [key |-> <<"C","I">>,
   value |-> [name |-> <<"C","I">>,
              formula |-> <<Lit("("), Ref("RED"), Lit(" - "), Ref("GREEN"), Lit(") / "), Ref("RED")>>,
              bands_required |-> <<[role |-> "GREEN", range |-> <<520, 600>>], [role |-> "RED", range |-> <<620, 690>>]>>,
              theme |-> <<"s","o","i","l">>,
              normalize_range |-> <<>>]],
  (* RI, line 732 *)
  [key |-> <<"R","I">>,
   value |-> [name |-> <<"R","I">>,
              formula |-> <<Ref("RED"), Lit("^2 / ("), Ref("GREEN"), Lit("^3)")>>,
              bands_required |-> <<[role |-> "GREEN", range |-> <<520, 600>>], [role |-> "RED", range |-> <<620, 690>>]>>,
              theme |-> <<"s","o","i","l">>,
              normalize_range |-> <<>>]],
  (* NDBI, line 746 *)
  [key |-> <<"N","D","B","I">>,
   value |-> [name |-> <<"N","D","B","I">>,
              formula |-> <<Lit("float("), Ref("SWIR"), Lit(" - "), Ref("NIR"), Lit(") / ("), Ref("SWIR"), Lit(" + "), Ref("NIR"), Lit(")")>>,
              bands_required |-> <<[role |-> "NIR", range |-> <<760, 900>>], [role |-> "SWIR", range |-> <<1550, 1750>>]>>,
              theme |-> <<"u","r","b","a","n">>,
              normalize_range |-> <<-1, 1>>]],
  (* UI, line 756 *)
  [key |-> <<"U","I">>,
   value |-> [name |-> <<"U","I">>,
              formula |-> <<Lit("("), Ref("SWIR"), Lit(" - "), Ref("NIR"), Lit(") / ("), Ref("SWIR"), Lit(" + "), Ref("NIR"), Lit(")")>>,
              bands_required |-> <<[role |-> "NIR", range |-> <<760, 900>>], [role |-> "SWIR", range |-> <<1550, 1750>>]>>,
              theme |-> <<"u","r","b","a","n">>,
              normalize_range |-> <<>>]],
  (* MSI, line 770 *)
  [key |-> <<"M","S","I">>,
   value |-> [name |-> <<"M","S","I">>,
              formula |-> <<Ref("SWIR"), Lit(" / "), Ref("NIR")>>,
              bands_required |-> <<[role |-> "NIR", range |-> <<760, 900>>], [role |-> "SWIR", range |-> <<1550, 1750>>]>>,
              theme |-> <<"s","t","r","e","s","s">>,
              normalize_range |-> <<>>]],
  (* NDNI, line 779 *)
  [key |-> <<"N","D","N","I">>,
   value |-> [name |-> <<"N","D","N","I">>,
              formula |-> <<Lit("(log(1/"), Ref("NIR1"), Lit(") - log(1/"), Ref("NIR2"), Lit(")) / (log(1/"), Ref("NIR1"), Lit(") + log(1/"), Ref("NIR2"), Lit("))")>>,
              bands_required |-> <<[role |-> "NIR1", range |-> <<1510, 1520>>], [role |-> "NIR2", range |-> <<1680, 1690>>]>>,
              theme |-> <<"s","t","r","e","s","s">>,
              normalize_range |-> <<>>]],
  (* TCARI, line 788 *)
  [key |-> <<"T","C","A","R","I">>,
   value |-> [name |-> <<"T","C","A","R","I">>,
              formula |-> <<Lit("3 * (("), Ref("REDEDGE"), Lit(" - "), Ref("RED"), Lit(") - 0.2 * ("), Ref("REDEDGE"), Lit(" - "), Ref("GREEN"), Lit(") * ("), Ref("REDEDGE"), Lit(" / "), Ref("RED"), Lit("))")>>,
              bands_required |-> <<[role |-> "GREEN", range |-> <<520, 600>>], [role |-> "RED", range |-> <<620, 690>>], [role |-> "REDEDGE", range |-> <<690, 730>>]>>,
              theme |-> <<"s","t","r","e","s","s">>,
              normalize_range |-> <<>>]],
  (* HI, line 803 *)
  [key |-> <<"H","I">>,
   value |-> [name |-> <<"H","I">>,
              formula |-> <<Lit("("), Ref("SWIR2200"), Lit(" * "), Ref("SWIR2400"), Lit(") / ("), Ref("SWIR2300"), Lit("^2)")>>,
              bands_required |-> <<[role |-> "SWIR2200", range |-> <<2195, 2205>>], [role |-> "SWIR2300", range |-> <<2295, 2305>>], [role |-> "SWIR2400", range |-> <<2395, 2405>>]>>,
              theme |-> <<"m","a","t","e","r","i","a","l","s">>,
              normalize_range |-> <<>>]],
  (* THI, line 812 *)
  [key |-> <<"T","H","I">>,
   value |-> [name |-> <<"T","H","I">>,
              formula |-> <<Lit("("), Ref("SWIR1730"), Lit(" + "), Ref("SWIR2450"), Lit(") / (2 * "), Ref("SWIR2210"), Lit(")")>>,
              bands_required |-> <<[role |-> "SWIR1730", range |-> <<1725, 1735>>], [role |-> "SWIR2210", range |-> <<2205, 2215>>], [role |-> "SWIR2450", range |-> <<2445, 2455>>]>>,
              theme |-> <<"m","a","t","e","r","i","a","l","s">>,
              normalize_range |-> <<>>]],
  (* OHI, line 821 *)
  [key |-> <<"O","H","I">>,
   value |-> [name |-> <<"O","H","I">>,
              formula |-> <<Lit("("), Ref("SWIR1650"), Lit(" + "), Ref("SWIR2450"), Lit(") / "), Ref("SWIR2210")>>,
              bands_required |-> <<[role |-> "SWIR1650", range |-> <<1645, 1655>>], [role |-> "SWIR2210", range |-> <<2205, 2215>>], [role |-> "SWIR2450", range |-> <<2445, 2455>>]>>,
              theme |-> <<"m","a","t","e","r","i","a","l","s">>,
              normalize_range |-> <<>>]],
  (* TPI, line 830 *)
  [key |-> <<"T","P","I">>,
   value |-> [name |-> <<"T","P","I">>,
              formula |-> <<Ref("SWIR2300"), Lit(" / "), Ref("SWIR1650")>>,
              bands_required |-> <<[role |-> "SWIR1650", range |-> <<1645, 1655>>], [role |-> "SWIR2300", range |-> <<2295, 2305>>]>>,
              theme |-> <<"m","a","t","e","r","i","a","l","s">>,
              normalize_range |-> <<>>]],
  (* COAL, line 839 *)
  [key |-> <<"C","O","A","L">>,
   value |-> [name |-> <<"C","O","A","L">>,
              formula |-> <<Lit("("), Ref("SWIR2200"), Lit(" / "), Ref("SWIR1600"), Lit(") * ("), Ref("SWIR2200"), Lit(" / "), Ref("NIR"), Lit(")")>>,
              bands_required |-> <<[role |-> "NIR", range |-> <<760, 900>>], [role |-> "SWIR1600", range |-> <<1595, 1605>>], [role |-> "SWIR2200", range |-> <<2195, 2205>>]>>,
              theme |-> <<"m","a","t","e","r","i","a","l","s">>,
              normalize_range |-> <<>>]],
  (* PLASTIC, line 849 *)
  [key |-> <<"P","L","A","S","T","I","C">>,
   value |-> [name |-> <<"P","L","A","S","T","I","C">>,
              formula |-> <<Lit("("), Ref("NIR"), Lit(" / "), Ref("SWIR1600"), Lit(") - ("), Ref("SWIR2200"), Lit(" / "), Ref("SWIR1600"), Lit(")")>>,
              bands_required |-> <<[role |-> "NIR", range |-> <<760, 900>>], [role |-> "SWIR1600", range |-> <<1595, 1605>>], [role |-> "SWIR2200", range |-> <<2195, 2205>>]>>,
              theme |-> <<"m","a","t","e","r","i","a","l","s">>,
              normalize_range |-> <<>>]],
  (* PDI, line 858 *)
  [key |-> <<"P","D","I">>,
   value |-> [name |-> <<"P","D","I">>,
              formula |-> <<Lit("("), Ref("NIR"), Lit(" - "), Ref("RED"), Lit(") / ("), Ref("NIR"), Lit(" + "), Ref("RED"), Lit(") - ("), Ref("SWIR1600"), Lit(" - "), Ref("NIR"), Lit(") / ("), Ref("SWIR1600"), Lit(" + "), Ref("NIR"), Lit(")")>>,
              bands_required |-> <<[role |-> "RED", range |-> <<620, 690>>], [role |-> "NIR", range |-> <<760, 900>>], [role |-> "SWIR1600", range |-> <<1595, 1605>>]>>,
              theme |-> <<"m","a","t","e","r","i","a","l","s">>,
              normalize_range |-> <<>>]],
  (* FPI, line 867 *)
  [key |-> <<"F","P","I">>,
   value |-> [name |-> <<"F","P","I">>,
              formula |-> <<Ref("NIR"), Lit(" / ("), Ref("RED"), Lit(" + "), Ref("SWIR1600"), Lit(") * 100")>>,
              bands_required |-> <<[role |-> "RED", range |-> <<620, 690>>], [role |-> "NIR", range |-> <<760, 900>>], [role |-> "SWIR1600", range |-> <<1595, 1605>>]>>,
              theme |-> <<"m","a","t","e","r","i","a","l","s">>,
              normalize_range |-> <<>>]],
  (* RSWIR, line 876 *)
  [key |-> <<"R","S","W","I","R">>,
   value |-> [name |-> <<"R","S","W","I","R">>,
              formula |-> <<Ref("SWIR1600"), Lit(" / "), Ref("NIR")>>,
              bands_required |-> <<[role |-> "NIR", range |-> <<760, 900>>], [role |-> "SWIR1600", range |-> <<1595, 1605>>]>>,
              theme |-> <<"m","a","t","e","r","i","a","l","s">>,
              normalize_range |-> <<>>]],
  (* NDPI, line 885 *)
  [key |-> <<"N","D","P","I">>,
   value |-> [name |-> <<"N","D","P","I">>,
              formula |-> <<Lit("("), Ref("SWIR1650"), Lit(" - "), Ref("NIR"), Lit(") / ("), Ref("SWIR1650"), Lit(" + "), Ref("NIR"), Lit(")")>>,
              bands_required |-> <<[role |-> "NIR", range |-> <<760, 900>>], [role |-> "SWIR1650", range |-> <<1645, 1655>>]>>,
              theme |-> <<"m","a","t","e","r","i","a","l","s">>,
              normalize_range |-> <<>>]],
  (* MPDI, line 894 *)
  [key |-> <<"M","P","D","I">>,
   value |-> [name |-> <<"M","P","D","I">>,
              formula |-> <<Lit("("), Ref("B490"), Lit(" - "), Ref("B560"), Lit(") / ("), Ref("B490"), Lit(" + "), Ref("B560"), Lit(") + ("), Ref("B665"), Lit(" - "), Ref("B865"), Lit(") / ("), Ref("B665"), Lit(" + "), Ref("B865"), Lit(")")>>,
              bands_required |-> <<[role |-> "B490", range |-> <<485, 495>>], [role |-> "B560", range |-> <<555, 565>>], [role |-> "B665", range |-> <<660, 670>>], [role |-> "B865", range |-> <<860, 870>>]>>,
              theme |-> <<"m","a","t","e","r","i","a","l","s">>,
              normalize_range |-> <<>>]],
  (* FERRIC, line 904 *)
  [key |-> <<"F","E","R","R","I","C">>,
   value |-> [name |-> <<"F","E","R","R","I","C">>,
              formula |-> <<Ref("SWIR1650"), Lit(" / "), Ref("B830")>>,
              bands_required |-> <<[role |-> "B830", range |-> <<825, 835>>], [role |-> "SWIR1650", range |-> <<1645, 1655>>]>>,
              theme |-> <<"m","a","t","e","r","i","a","l","s">>,
              normalize_range |-> <<>>]],
  (* FERROUS, line 913 *)
  [key |-> <<"F","E","R","R","O","U","S">>,
   value |-> [name |-> <<"F","E","R","R","O","U","S">>,
              formula |-> <<Ref("SWIR1650"), Lit(" / "), Ref("B1550")>>,
              bands_required |-> <<[role |-> "B1550", range |-> <<1545, 1555>>], [role |-> "SWIR1650", range |-> <<1645, 1655>>]>>,
              theme |-> <<"m","a","t","e","r","i","a","l","s">>,
              normalize_range |-> <<>>]],
  (* LATERITE, line 922 *)
  [key |-> <<"L","A","T","E","R","I","T","E">>,
   value |-> [name |-> <<"L","A","T","E","R","I","T","E">>,
              formula |-> <<Lit("("), Ref("SWIR1650"), Lit(" + "), Ref("RED"), Lit(") / "), Ref("NIR")>>,
              bands_required |-> <<[role |-> "RED", range |-> <<620, 690>>], [role |-> "NIR", range |-> <<760, 900>>], [role |-> "SWIR1650", range |-> <<1645, 1655>>]>>,
              theme |-> <<"m","a","t","e","r","i","a","l","s">>,
              normalize_range |-> <<>>]],
  (* GOSSAN, line 931 *)
  [key |-> <<"G","O","S","S","A","N">>,
   value |-> [name |-> <<"G","O","S","S","A","N">>,
              formula |-> <<Lit("("), Ref("RED"), Lit(" * "), Ref("SWIR1650"), Lit(") / ("), Ref("GREEN"), Lit("^2)")>>,
              bands_required |-> <<[role |-> "GREEN", range |-> <<520, 600>>], [role |-> "RED", range |-> <<620, 690>>], [role |-> "SWIR1650", range |-> <<1645, 1655>>]>>,
              theme |-> <<"m","a","t","e","r","i","a","l","s">>,
              normalize_range |-> <<>>]],
  (* SINDEX, line 940 *)
  [key |-> <<"S","I","N","D","E","X">>,
   value |-> [name |-> <<"S","I","N","D","E","X">>,
              formula |-> <<Lit("sqrt("), Ref("RED"), Lit(" * "), Ref("NIR"), Lit(")")>>,
              bands_required |-> <<[role |-> "RED", range |-> <<620, 690>>], [role |-> "NIR", range |-> <<760, 900>>]>>,
              theme |-> <<"m","a","t","e","r","i","a","l","s">>,
              normalize_range |-> <<>>]],
  (* PAINT, line 950 *)
  [key |-> <<"P","A","I","N","T">>,
   value |-> [name |-> <<"P","A","I","N","T">>,
              formula |-> <<Lit("("), Ref("B450"), Lit(" + "), Ref("B650"), Lit(") / (2 * "), Ref("B550"), Lit(")")>>,
              bands_required |-> <<[role |-> "B450", range |-> <<445, 455>>], [role |-> "B550", range |-> <<545, 555>>], [role |-> "B650", range |-> <<645, 655>>]>>,
              theme |-> <<"m","a","t","e","r","i","a","l","s">>,
              normalize_range |-> <<>>]],
  (* ASPHALT, line 959 *)
  [key |-> <<"A","S","P","H","A","L","T">>,
   value |-> [name |-> <<"A","S","P","H","A","L","T">>,
              formula |-> <<Lit("("), Ref("SWIR1600"), Lit(" - "), Ref("SWIR2200"), Lit(") / ("), Ref("SWIR1600"), Lit(" + "), Ref("SWIR2200"), Lit(")")>>,
              bands_required |-> <<[role |-> "SWIR1600", range |-> <<1595, 1605>>], [role |-> "SWIR2200", range |-> <<2195, 2205>>]>>,
              theme |-> <<"m","a","t","e","r","i","a","l","s">>,
              normalize_range |-> <<>>]],
  (* CONCRETE, line 968 *)
  [key |-> <<"C","O","N","C","R","E","T","E">>,
   value |-> [name |-> <<"C","O","N","C","R","E","T","E">>,
              formula |-> <<Lit("("), Ref("B500"), Lit(" + "), Ref("SWIR2200"), Lit(") / "), Ref("NIR")>>,
              bands_required |-> <<[role |-> "B500", range |-> <<495, 505>>], [role |-> "NIR", range |-> <<760, 900>>], [role |-> "SWIR2200", range |-> <<2195, 2205>>]>>,
              theme |-> <<"m","a","t","e","r","i","a","l","s">>,
              normalize_range |-> <<>>]]
  >>

\* the dict a run of assignments d[key] = value leaves, from an empty dict:
\* each key at the place of its first assignment, with its last value
assign_all(assignments) ==
  LET n == Len(assignments)
      is_first(i) == \A j \in 1..(i - 1) : assignments[j].key # assignments[i].key
      firsts == SelectSeq([i \in 1..n |-> i], is_first)
      last(k) == CHOOSE j \in 1..n :
                   /\ assignments[j].key = k
                   /\ \A m \in (j + 1)..n : assignments[m].key # k
  IN [p \in 1..Len(firsts) |->
        [key |-> assignments[firsts[p]].key,
         value |-> assignments[last(assignments[firsts[p]].key)].value]]

\* a slip: NDVI declares a role its formula does not read
indices_db_unread_role ==
  assign_all([initialize_indices EXCEPT
                ![1].value.bands_required =
                   Append(@, [role |-> "GREEN", range |-> <<520, 600>>])])

\* self.indices_db after __init__
indices_db == assign_all(initialize_indices)

(***************************************************************************)
(* The band resolver                                                       *)
(***************************************************************************)
\* isinstance(wavelength_range, tuple)
is_tuple(wavelength_range) == Len(wavelength_range) = 2

\* twice target_center (the centre of a range may fall on a half nanometre)
target_center2(wavelength_target) ==
  IF is_tuple(wavelength_target)
  THEN wavelength_target[1] + wavelength_target[2]
  ELSE 2 * wavelength_target[1]

\* a slip: the nearest to the lower end of the range, not to its centre
find_closest_band_low_end(wavelength_target, available_wavelengths) ==
  LET key(x) == abs(x - wavelength_target[1])
      n == Len(available_wavelengths)
      first == CHOOSE i \in 1..n :
                 /\ \A j \in 1..n : key(available_wavelengths[i]) <= key(available_wavelengths[j])
                 /\ \A j \in 1..(i - 1) : key(available_wavelengths[j]) > key(available_wavelengths[i])
  IN available_wavelengths[first]

\* a slip: the nearest to the upper end of the range, not to its centre
find_closest_band_high_end(wavelength_target, available_wavelengths) ==
  LET key(x) == abs(x - wavelength_target[Len(wavelength_target)])
      n == Len(available_wavelengths)
      first == CHOOSE i \in 1..n :
                 /\ \A j \in 1..n : key(available_wavelengths[i]) <= key(available_wavelengths[j])
                 /\ \A j \in 1..(i - 1) : key(available_wavelengths[j]) > key(available_wavelengths[i])
  IN available_wavelengths[first]

\* a slip: of the nearest wavelengths the last one, not the first
find_closest_band_last(wavelength_target, available_wavelengths) ==
  LET key(x) == abs(2 * x - target_center2(wavelength_target))
      n == Len(available_wavelengths)
      last == CHOOSE i \in 1..n :
                /\ \A j \in 1..n : key(available_wavelengths[i]) <= key(available_wavelengths[j])
                /\ \A j \in (i + 1)..n : key(available_wavelengths[j]) > key(available_wavelengths[i])
  IN available_wavelengths[last]

\* min(available_wavelengths, key=lambda x: abs(x - target_center)): the first
\* element whose key no element undercuts
find_closest_band(wavelength_target, available_wavelengths) ==
  the({LET key(x) == abs(2 * x - center2)
           first == CHOOSE i \in 1..Len(available) :
                      /\ \A j \in 1..Len(available) : key(available[i]) <= key(available[j])
                      /\ \A j \in 1..(i - 1) : key(available[j]) > key(available[i])
       IN available[first] :
       center2 \in {target_center2(wavelength_target)},
       available \in {available_wavelengths}})

\* the inner loop of can_calculate_index: some wavelength meets the requirement
band_found(wavelength_range, available_wavelengths) ==
  \E k \in 1..Len(available_wavelengths) :
    LET wl == available_wavelengths[k] IN
    IF is_tuple(wavelength_range)
    THEN wavelength_range[1] <= wl /\ wl <= wavelength_range[2]
    ELSE abs(wl - wavelength_range[1]) < 50

\* the loop of can_calculate_index over index.bands_required.items(): the
\* first requirement no wavelength meets ends it
check_requirements(index, available_wavelengths) ==
  LET req == index.bands_required IN
  IF \A i \in 1..Len(req) : band_found(req[i].range, available_wavelengths)
  THEN [ok |-> TRUE, msg |-> "OK", band_name |-> "", wavelength_range |-> <<>>]
  ELSE LET i == CHOOSE m \in 1..Len(req) :
                  /\ ~band_found(req[m].range, available_wavelengths)
                  /\ \A o \in 1..(m - 1) : band_found(req[o].range, available_wavelengths)
       IN [ok |-> FALSE, msg |-> "Required band not available",
           band_name |-> req[i].role, wavelength_range |-> req[i].range]

\* a slip: an index of the catalog passes, whatever the wavelengths
can_calculate_index_found(index_name, available_wavelengths) ==
  IF get(indices_db, upper(index_name)) = None
  THEN [ok |-> FALSE, msg |-> "Index not found", band_name |-> "",
        wavelength_range |-> <<>>]
  ELSE [ok |-> TRUE, msg |-> "OK", band_name |-> "", wavelength_range |-> <<>>]

\* can_calculate_index: can_calculate (ok) and the message, with the band name
\* and the requirement the "not available" message is formatted from
can_calculate_index(index_name, available_wavelengths) ==
  the({IF index = None
       THEN [ok |-> FALSE, msg |-> "Index not found", band_name |-> "",
             wavelength_range |-> <<>>]
       ELSE check_requirements(index, available_wavelengths) :
       index \in {get(indices_db, upper(index_name))}})

\* a slip: every role bound to the first band
get_band_mapping_first_band(index_name, wavelength_to_band) ==
  [j \in 1..Len(item(indices_db, upper(index_name)).bands_required) |->
     [key |-> item(indices_db, upper(index_name)).bands_required[j].role,
      value |-> wavelength_to_band[1].value]]

\* get_band_mapping: the dict role -> raster name (KeyError for an absent name:
\* callers guard with has_key)
RECURSIVE map_roles(_, _, _)
map_roles(mapping, req, wavelength_to_band) ==
  IF req = <<>> THEN mapping
  ELSE LET closest_wl == find_closest_band(Head(req).range, keys(wavelength_to_band))
       IN map_roles(set_item(mapping, Head(req).role, item(wavelength_to_band, closest_wl)),
                    Tail(req), wavelength_to_band)

get_band_mapping(index_name, wavelength_to_band) ==
  the({map_roles(<<>>, index.bands_required, wavelength_to_band) :
       index \in {item(indices_db, upper(index_name))}})

\* a piece of a generated expression: literal text, or substituted text
Text(s) == [lit |-> s, sub |-> <<>>]

Sub(t) == [lit |-> "", sub |-> t]

\* index.formula(b): the f-string with each b['ROLE'] replaced by its raster name
\* (KeyError for a role b lacks: callers pass the mapping of the same index)
apply_formula(index, b) ==
  the({[i \in 1..Len(pieces) |->
          IF pieces[i].role = "" THEN Text(pieces[i].lit)
          ELSE Sub(item(b, pieces[i].role))] :
       pieces \in {index.formula}})

(***************************************************************************)
(* Catalog queries                                                         *)
(***************************************************************************)
\* the place of each item of indices_db among the keys in ascending order
\* (keys are unique, so sorted() never compares the values)
key_rank ==
  [i \in 1..Len(indices_db) |->
     1 + Cardinality({j \in 1..Len(indices_db) :
                        str_less(indices_db[j].key, indices_db[i].key)})]

\* sorted(self.indices_db.items())
sorted_items ==
  [r \in 1..Len(indices_db) |->
     indices_db[CHOOSE i \in 1..Len(indices_db) : key_rank[i] = r]]

\* a slip: the items taken as the catalog holds them, not sorted
list_indices_unsorted(theme) ==
  LET kept(it) == ~(theme # <<>> /\ it.value.theme # theme)
  IN the({[i \in 1..Len(items) |-> items[i].value] :
          items \in {SelectSeq(indices_db, kept)}})

\* a slip: the theme is not looked at
list_indices_unfiltered(theme) ==
  [i \in 1..Len(sorted_items) |-> sorted_items[i].value]

\* list_indices(theme): a theme of None or '' keeps every index
list_indices(theme) ==
  LET kept(it) == ~(theme # <<>> /\ it.value.theme # theme)
  IN the({[i \in 1..Len(items) |-> items[i].value] :
          items \in {SelectSeq(sorted_items, kept)}})

\* get_themes(): sorted(set(index.theme ...))
RECURSIVE sorted_strs(_)
sorted_strs(S) ==
  IF S = {} THEN <<>>
  ELSE LET least == CHOOSE t \in S : \A u \in S : ~str_less(u, t)
       IN <<least>> \o sorted_strs(S \ {least})

get_themes == sorted_strs({indices_db[i].value.theme : i \in 1..Len(indices_db)})

(***************************************************************************)
(* main(): one run of the module                                           *)
(***************************************************************************)
VARIABLES
  options,             \* gs.parser(): input, wavelengths, output_prefix, indices, theme
  flags,               \* gs.parser(): l, i, n
  pc,                  \* where main() is
  input_bands,         \* main's locals, None until assigned
  wavelengths,
  wavelength_to_band,
  indices_to_calc,
  pos,                 \* how many names of indices_to_calc the loop has consumed
  calculated,
  skipped,
  index_name,
  band_mapping,
  formula,
  output_name,
  calls,               \* the execution-engine calls of the current iteration, in order
  message,             \* the last gs.fatal / gs.warning / gs.message text
  failures,            \* how many engine calls of the run raised CalledModuleError
  query,               \* a direct call of a method of HyperspectralIndices
  result               \* and what it returned

vars ==
  <<options, flags, pc, input_bands, wavelengths, wavelength_to_band,
    indices_to_calc, pos, calculated, skipped, index_name, band_mapping,
    formula, output_name, calls, message, failures, query, result>>

\* ---- the inputs the model draws ----------------------------------------
\* the longest list of input bands (and of wavelengths) a run is given
MaxBands == 3

\* the wavelength values of a run: two at the same distance (10 nm) from the
\* centre 655 of RED (620, 690), one inside NIR (760, 900), one unparsable
WavelengthTokens ==
  {<<"6","4","5">>, <<"6","6","5">>, <<"8","5","0">>, <<"x">>}

\* raster names b1, b2, ...
band_id(k) == <<"b", Digits[k + 1]>>

RECURSIVE join(_)
join(strs) ==
  IF strs = <<>> THEN <<>>
  ELSE IF Len(strs) = 1 THEN strs[1]
  ELSE strs[1] \o <<",">> \o join(Tail(strs))

WavelengthLists == UNION {[1..k -> WavelengthTokens] : k \in 0..MaxBands}

Unparsable == <<"x">>

\* input= has as many bands as wavelengths= has values, or none, or MaxBands
BandInputs ==
  {[input |-> join([i \in 1..p[2] |-> band_id(i)]), wavelengths |-> join(p[1])] :
     p \in {q \in WavelengthLists \X (0..MaxBands) : q[2] \in {0, Len(q[1]), MaxBands}}}

\* the inputs among them that pass validation
ValidBandInputs ==
  {[input |-> join([i \in 1..Len(ws) |-> band_id(i)]), wavelengths |-> join(ws)] :
     ws \in {w \in WavelengthLists : w # <<>> /\ \A i \in 1..Len(w) : w[i] # Unparsable}}

S_all == <<"a","l","l">>

S_ndvi == <<"n","d","v","i">>

S_NDVI == <<"N","D","V","I">>

S_FOO == <<"F","O","O">>

S_vegetation == <<"v","e","g","e","t","a","t","i","o","n">>

S_water == <<"w","a","t","e","r">>

S_out == <<"o","u","t">>

\* values of indices=: the option's default answer, 'all' in two cases, a known
\* and an unknown name in both orders, names with blanks, the mixed-case
\* catalog name, a theme name, nothing
IndicesChoices ==
  { S_ndvi,
    S_all,
    <<"A","l","l">>,
    S_NDVI \o <<",">> \o S_FOO,
    S_FOO \o <<",">> \o S_ndvi,
    <<" ","s","a","v","i"," ",",","n","d","v","i">>,
    <<"C","I","r","e","d","e","d","g","e">>,
    S_vegetation,
    <<>> }

\* values of theme=: one of the option's declared values
ThemeChoices == {S_vegetation, S_water, S_all}

\* indices= alone, or theme= beside an indices= that names or widens something else
SelectionChoices ==
  {[indices |-> s, theme |-> <<>>] : s \in IndicesChoices}
  \cup {[indices |-> s, theme |-> t] : s \in {S_ndvi, S_all}, t \in ThemeChoices}

FlagChoices ==
  { [l |-> TRUE,  i |-> FALSE, n |-> FALSE],
    [l |-> TRUE,  i |-> TRUE,  n |-> FALSE],
    [l |-> FALSE, i |-> FALSE, n |-> FALSE],
    [l |-> FALSE, i |-> FALSE, n |-> TRUE] }

\* a green, a red-edge and a near-infrared band: inside GREEN (520, 600),
\* REDEDGE (690, 730) and NIR (760, 900)
RedEdgeInput ==
  [input |-> join([i \in 1..3 |-> band_id(i)]),
   wavelengths |-> <<"5","6","0",",","7","0","5",",","8","5","0">>]

\* the selections that take their names from the catalog
CatalogSelections ==
  {[indices |-> S_all, theme |-> <<>>],
   [indices |-> S_ndvi, theme |-> S_vegetation],
   [indices |-> S_ndvi, theme |-> S_water]}

\* the option sets of the runs: every band input and prefix with the default
\* selection, every selection with the inputs that pass validation, and the
\* catalog selections over the green, red-edge and near-infrared bands
OptionChoices ==
  {[input |-> b.input, wavelengths |-> b.wavelengths, output_prefix |-> p,
    indices |-> S_ndvi, theme |-> <<>>] : b \in BandInputs, p \in {<<>>, S_out}}
  \cup
  {[input |-> b.input, wavelengths |-> b.wavelengths, output_prefix |-> S_out,
    indices |-> c.indices, theme |-> c.theme] : b \in ValidBandInputs, c \in SelectionChoices}
  \cup
  {[input |-> RedEdgeInput.input, wavelengths |-> RedEdgeInput.wavelengths,
    output_prefix |-> S_out, indices |-> c.indices, theme |-> c.theme] :
     c \in CatalogSelections}

NoMessage == [text |-> "", band_name |-> "", wavelength_range |-> <<>>]

NoQuery == [fn |-> "", index_name |-> <<>>, wavelength_target |-> <<>>,
            available_wavelengths |-> <<>>, wavelength_to_band |-> <<>>,
            theme |-> <<>>]

NoResult ==
  [closest |-> 0,
   can |-> [ok |-> FALSE, msg |-> "", band_name |-> "", wavelength_range |-> <<>>],
   mapping |-> <<>>,
   listing |-> <<>>,
   themes |-> <<>>]

Locals ==
  /\ input_bands = None
  /\ wavelengths = None
  /\ wavelength_to_band = None
  /\ indices_to_calc = None
  /\ pos = 0
  /\ calculated = 0
  /\ skipped = 0
  /\ index_name = None
  /\ band_mapping = None
  /\ formula = None
  /\ output_name = None
  /\ calls = <<>>
  /\ message = NoMessage
  /\ failures = 0
  /\ query = NoQuery
  /\ result = NoResult

Init ==
  /\ options \in OptionChoices
  /\ flags \in FlagChoices
  /\ pc = "parser"
  /\ Locals

\* ---- listing ------------------------------------------------------------
\* if flags['l']: list_available_indices(...); return 0
ListIndices ==
  /\ pc = "parser"
  /\ flags.l
  /\ pc' = "listed"
  /\ message' = [NoMessage EXCEPT !.text = "AVAILABLE SPECTRAL INDICES"]
  /\ UNCHANGED <<options, flags, input_bands, wavelengths, wavelength_to_band,
                 indices_to_calc, pos, calculated, skipped, index_name,
                 band_mapping, formula, output_name, calls, failures, query, result>>

\* ---- validation ---------------------------------------------------------
\* a slip: gs.warning where the code ends the run
fatal_warns(text) ==
  /\ pc' = "select"
  /\ message' = [NoMessage EXCEPT !.text = text]
  /\ UNCHANGED <<input_bands, wavelengths, wavelength_to_band>>

\* gs.fatal(text): the run ends there
fatal(text) ==
  /\ pc' = "fatal"
  /\ message' = [NoMessage EXCEPT !.text = text]
  /\ UNCHANGED <<input_bands, wavelengths, wavelength_to_band>>

\* the parameter checks, the split of both lists, the parse of the wavelengths,
\* the count check and the wavelength -> band dict
Validate ==
  /\ pc = "parser"
  /\ ~flags.l
  /\ IF options.input = <<>>
     THEN fatal("Required parameter <input> not set")
     ELSE IF options.wavelengths = <<>>
     THEN fatal("Required parameter <wavelengths> not set")
     ELSE IF options.output_prefix = <<>>
     THEN fatal("Required parameter <output_prefix> not set")
     ELSE \E bands \in {split(options.input)}, strs \in {split(options.wavelengths)} :
       IF \E i \in 1..Len(strs) : float_raises(strs[i])
       THEN fatal("Invalid wavelength values")
       ELSE \E parsed \in {[i \in 1..Len(strs) |-> float(strs[i])]} :
         IF Len(bands) # Len(parsed)
         THEN fatal("Number of input bands must match number of wavelengths")
         ELSE /\ input_bands' = bands
              /\ wavelengths' = parsed
              /\ wavelength_to_band' = dict_zip(<<>>, parsed, bands)
              /\ pc' = "select"
              /\ UNCHANGED message
  /\ UNCHANGED <<options, flags, indices_to_calc, pos, calculated, skipped,
                 index_name, band_mapping, formula, output_name, calls, failures, query, result>>

\* ---- selection ----------------------------------------------------------
\* a slip: the names of indices= added to the members of the theme
selected_indices_mixed(theme, indices_str) ==
  (IF theme # <<>>
   THEN the({[i \in 1..Len(listed) |-> listed[i].name] : listed \in {list_indices(theme)}})
   ELSE <<>>)
  \o (IF lower(indices_str) = S_all
      THEN keys(indices_db)
      ELSE the({[i \in 1..Len(names) |-> upper(strip(names[i]))] :
                names \in {split(indices_str)}}))

\* a slip: 'all' compared as typed
selected_indices_all_as_typed(theme, indices_str) ==
  IF theme # <<>>
  THEN the({[i \in 1..Len(listed) |-> listed[i].name] : listed \in {list_indices(theme)}})
  ELSE IF indices_str = S_all
  THEN keys(indices_db)
  ELSE the({[i \in 1..Len(names) |-> upper(strip(names[i]))] : names \in {split(indices_str)}})

selected_indices(theme, indices_str) ==
  IF theme # <<>>
  THEN the({[i \in 1..Len(listed) |-> listed[i].name] : listed \in {list_indices(theme)}})
  ELSE IF lower(indices_str) = S_all
  THEN keys(indices_db)
  ELSE the({[i \in 1..Len(names) |-> upper(strip(names[i]))] : names \in {split(indices_str)}})

Select ==
  /\ pc = "select"
  /\ indices_to_calc' = selected_indices(options.theme, options.indices)
  /\ calculated' = 0
  /\ skipped' = 0
  /\ pos' = 0
  /\ pc' = "loop"
  /\ UNCHANGED <<options, flags, input_bands, wavelengths, wavelength_to_band,
                 index_name, band_mapping, formula, output_name, calls,
                 message, failures, query, result>>

\* ---- the calculation loop ----------------------------------------------
\* a slip: gs.fatal where the code warns and goes on
skip_fatal(text, band_name, wavelength_range) ==
  /\ pc' = "fatal"
  /\ message' = [text |-> text, band_name |-> band_name,
                 wavelength_range |-> wavelength_range]
  /\ UNCHANGED <<pos, calculated, skipped, failures>>

\* gs.warning(...); skipped += 1; continue
skip(text, band_name, wavelength_range) ==
  /\ skipped' = skipped + 1
  /\ pos' = pos + 1
  /\ pc' = "loop"
  /\ message' = [text |-> text, band_name |-> band_name,
                 wavelength_range |-> wavelength_range]
  /\ UNCHANGED <<calculated, failures>>

\* f"{output_prefix}_{index_name}"
output_name_of(output_prefix, name) == output_prefix \o <<"_">> \o name

\* a slip: the mapping of the iteration before is kept, not started empty
NextIndex_kept ==
  /\ pc = "loop"
  /\ pos < Len(indices_to_calc)
  /\ \E name \in {indices_to_calc[pos + 1]} :
       /\ index_name' = name
       /\ calls' = <<>>
       /\ IF ~has_key(indices_db, name)
          THEN /\ skip("Index not found in database. Skipping.", "", <<>>)
               /\ UNCHANGED <<band_mapping, formula, output_name>>
          ELSE \E can \in {can_calculate_index(name, wavelengths)} :
                 IF ~can.ok
                 THEN /\ skip(can.msg, can.band_name, can.wavelength_range)
                      /\ UNCHANGED <<band_mapping, formula, output_name>>
                 ELSE /\ band_mapping' = map_roles(band_mapping, item(indices_db, upper(name)).bands_required,
                                                 wavelength_to_band)
                      /\ formula' = apply_formula(item(indices_db, name), band_mapping')
                      /\ output_name' = output_name_of(options.output_prefix, name)
                      /\ pc' = "mapcalc"
                      /\ UNCHANGED <<pos, calculated, skipped, message, failures>>
  /\ UNCHANGED <<options, flags, input_bands, wavelengths, wavelength_to_band,
                 indices_to_calc, query, result>>

\* the head of an iteration: the catalog test, the feasibility check and, for
\* a feasible index, the band mapping, the formula and the output name
NextIndex ==
  /\ pc = "loop"
  /\ pos < Len(indices_to_calc)
  /\ \E name \in {indices_to_calc[pos + 1]} :
       /\ index_name' = name
       /\ calls' = <<>>
       /\ IF ~has_key(indices_db, name)
          THEN /\ skip("Index not found in database. Skipping.", "", <<>>)
               /\ UNCHANGED <<band_mapping, formula, output_name>>
          ELSE \E can \in {can_calculate_index(name, wavelengths)} :
                 IF ~can.ok
                 THEN /\ skip(can.msg, can.band_name, can.wavelength_range)
                      /\ UNCHANGED <<band_mapping, formula, output_name>>
                 ELSE /\ band_mapping' = get_band_mapping(name, wavelength_to_band)
                      /\ formula' = apply_formula(item(indices_db, name), band_mapping')
                      /\ output_name' = output_name_of(options.output_prefix, name)
                      /\ pc' = "mapcalc"
                      /\ UNCHANGED <<pos, calculated, skipped, message, failures>>
  /\ UNCHANGED <<options, flags, input_bands, wavelengths, wavelength_to_band,
                 indices_to_calc, query, result>>

\* an engine call: the command, the raster it writes or styles, the expression
\* (r.mapcalc) and the colour table (r.colors)
engine_call(cmd, raster, expression, color) ==
  [cmd |-> cmd, raster |-> raster, expression |-> expression, color |-> color]

\* a slip: the handler ends the run
except_CalledModuleError_fatal ==
  /\ pc' = "fatal"
  /\ message' = [NoMessage EXCEPT !.text = "Failed to calculate"]
  /\ failures' = failures + 1
  /\ UNCHANGED <<pos, calculated, skipped>>

\* a slip: the handler counts the index as calculated
except_CalledModuleError_calculated ==
  /\ calculated' = calculated + 1
  /\ pos' = pos + 1
  /\ pc' = "loop"
  /\ message' = [NoMessage EXCEPT !.text = "Failed to calculate"]
  /\ failures' = failures + 1
  /\ UNCHANGED skipped

\* a slip: the handler goes on without counting the index
except_CalledModuleError_uncounted ==
  /\ pos' = pos + 1
  /\ pc' = "loop"
  /\ message' = [NoMessage EXCEPT !.text = "Failed to calculate"]
  /\ failures' = failures + 1
  /\ UNCHANGED <<calculated, skipped>>

\* except CalledModuleError: gs.warning(...); skipped += 1; continue
except_CalledModuleError ==
  /\ skipped' = skipped + 1
  /\ pos' = pos + 1
  /\ pc' = "loop"
  /\ message' = [NoMessage EXCEPT !.text = "Failed to calculate"]
  /\ failures' = failures + 1
  /\ UNCHANGED calculated

index_def == item(indices_db, index_name)

\* a slip: the flag alone decides, whether the index has a range or not
normalizes_flag_only == flags.n

\* flags['n'] and hasattr(index_def, 'normalize_range') and index_def.normalize_range
normalizes == flags.n /\ index_def.normalize_range # None

\* a slip: the primary evaluation outside the try: its failure is logged and
\* the steps that follow it are still attempted
Mapcalc_unguarded ==
  /\ pc = "mapcalc"
  /\ calls' = Append(calls, engine_call("r.mapcalc", output_name, formula, ""))
  /\ \E raised \in BOOLEAN :
       /\ pc' = IF normalizes THEN "normalize" ELSE "colors"
       /\ IF raised
          THEN /\ message' = [NoMessage EXCEPT !.text = "Failed to calculate"]
               /\ failures' = failures + 1
               /\ UNCHANGED <<pos, calculated, skipped>>
          ELSE UNCHANGED <<pos, calculated, skipped, message, failures>>
  /\ UNCHANGED <<options, flags, input_bands, wavelengths, wavelength_to_band,
                 indices_to_calc, index_name, band_mapping, formula,
                 output_name, query, result>>

\* mapcalc(f"{output_name} = {formula}", overwrite=True)
Mapcalc ==
  /\ pc = "mapcalc"
  /\ calls' = Append(calls, engine_call("r.mapcalc", output_name, formula, ""))
  /\ \E raised \in BOOLEAN :
       IF raised THEN except_CalledModuleError
       ELSE /\ pc' = IF normalizes THEN "normalize" ELSE "colors"
            /\ UNCHANGED <<pos, calculated, skipped, message, failures>>
  /\ UNCHANGED <<options, flags, input_bands, wavelengths, wavelength_to_band,
                 indices_to_calc, index_name, band_mapping, formula,
                 output_name, query, result>>

\* str(n) of an int
RECURSIVE str(_)
str(n) ==
  IF n < 0 THEN <<"-">> \o str(-n)
  ELSE IF n < 10 THEN <<Digits[n + 1]>>
  ELSE str(n \div 10) \o <<Digits[(n % 10) + 1]>>

\* f"{output_name}_temp"
temp_name_of(name) == name \o <<"_","t","e","m","p">>

\* a slip: the result divided by max_val, not by the width of the range
norm_formula_of_max(name, normalize_range) ==
  <<Text("("), Sub(name), Text(" - "), Sub(str(normalize_range[1])),
    Text(") / ("), Sub(str(normalize_range[2])), Text(" - "),
    Sub(str(0)), Text(")")>>

\* f"({output_name} - {min_val}) / ({max_val} - {min_val})"
norm_formula_of(name, normalize_range) ==
  <<Text("("), Sub(name), Text(" - "), Sub(str(normalize_range[1])),
    Text(") / ("), Sub(str(normalize_range[2])), Text(" - "),
    Sub(str(normalize_range[1])), Text(")")>>

\* mapcalc(f"{temp_name} = {norm_formula}", overwrite=True)
Normalize ==
  /\ pc = "normalize"
  /\ calls' = Append(calls,
                engine_call("r.mapcalc", temp_name_of(output_name),
                            norm_formula_of(output_name, index_def.normalize_range), ""))
  /\ \E raised \in BOOLEAN :
       IF raised THEN except_CalledModuleError
       ELSE /\ pc' = "rename"
            /\ UNCHANGED <<pos, calculated, skipped, message, failures>>
  /\ UNCHANGED <<options, flags, input_bands, wavelengths, wavelength_to_band,
                 indices_to_calc, index_name, band_mapping, formula,
                 output_name, query, result>>

\* run_command('g.rename', raster=f"{temp_name},{output_name}", ...)
Rename ==
  /\ pc = "rename"
  /\ calls' = Append(calls,
                engine_call("g.rename",
                            temp_name_of(output_name) \o <<",">> \o output_name,
                            <<>>, ""))
  /\ \E raised \in BOOLEAN :
       IF raised THEN except_CalledModuleError
       ELSE /\ pc' = "colors"
            /\ UNCHANGED <<pos, calculated, skipped, message, failures>>
  /\ UNCHANGED <<options, flags, input_bands, wavelengths, wavelength_to_band,
                 indices_to_calc, index_name, band_mapping, formula,
                 output_name, query, result>>

\* a slip: the colour table chosen by the name test alone
color_of_by_name(name, index) ==
  IF \/ contains(name, <<"N","D","V">>)
     \/ contains(name, <<"E","V","I">>)
  THEN "ndvi"
  ELSE "viridis"

\* the colour table of an index
color_of(name, index) ==
  IF \/ contains(name, <<"N","D","V">>)
     \/ contains(name, <<"E","V","I">>)
     \/ index.theme = S_vegetation
  THEN "ndvi"
  ELSE IF index.theme = S_water THEN "water"
  ELSE "viridis"

\* run_command('r.colors', map=output_name, color=...); calculated += 1
Colors ==
  /\ pc = "colors"
  /\ calls' = Append(calls,
                engine_call("r.colors", output_name, <<>>,
                            color_of(index_name, index_def)))
  /\ \E raised \in BOOLEAN :
       IF raised THEN except_CalledModuleError
       ELSE /\ calculated' = calculated + 1
            /\ pos' = pos + 1
            /\ pc' = "loop"
            /\ message' = [NoMessage EXCEPT !.text = "Successfully created"]
            /\ UNCHANGED <<skipped, failures>>
  /\ UNCHANGED <<options, flags, input_bands, wavelengths, wavelength_to_band,
                 indices_to_calc, index_name, band_mapping, formula,
                 output_name, query, result>>

\* the loop is exhausted: the summary message, return 0
Summary ==
  /\ pc = "loop"
  /\ pos = Len(indices_to_calc)
  /\ pc' = "summary"
  /\ message' = [NoMessage EXCEPT !.text = "SUMMARY"]
  /\ UNCHANGED <<options, flags, input_bands, wavelengths, wavelength_to_band,
                 indices_to_calc, pos, calculated, skipped, index_name,
                 band_mapping, formula, output_name, calls, failures, query,
                 result>>

Next ==
  \/ ListIndices
  \/ Validate
  \/ Select
  \/ NextIndex
  \/ Mapcalc
  \/ Normalize
  \/ Rename
  \/ Colors
  \/ Summary

Spec == Init /\ [][Next]_vars

\* a run is never held up: every step it can take, it eventually takes
FairSpec == Spec /\ WF_vars(Next)

(***************************************************************************)
(* Direct calls of the resolver's methods, one per behaviour               *)
(***************************************************************************)
\* the longest list of wavelengths a direct call is given
MaxQueryBands == 2

\* the ends of RED (620, 690), REDEDGE (690, 730) and NIR (760, 900), their
\* neighbours outside, and two wavelengths 10 nm either side of RED's centre
QueryWavelengths == {619, 620, 645, 665, 690, 691, 760, 850, 900, 901}

QueryLists == UNION {[1..k -> QueryWavelengths] : k \in 0..MaxQueryBands}

\* every requirement of the catalog, and two single target wavelengths
QueryTargets ==
  {indices_db[i].value.bands_required[j].range :
     <<i, j>> \in {p \in (1..Len(indices_db)) \X (1..5) :
                     p[2] <= Len(indices_db[p[1]].value.bands_required)}}
  \cup {<<670>>, <<655>>}

\* every name of the catalog, some of them in other cases, and an unknown name
QueryNames ==
  {indices_db[i].key : i \in 1..Len(indices_db)}
  \cup {S_ndvi, <<"N","d","v","I">>, <<"c","i","r","e","d","e","d","g","e">>,
        <<"C","I","R","E","D","E","D","G","E">>, S_FOO}

QueryInit ==
  /\ options = [input |-> <<>>, wavelengths |-> <<>>, output_prefix |-> <<>>,
                indices |-> S_ndvi, theme |-> <<>>]
  /\ flags = [l |-> FALSE, i |-> FALSE, n |-> FALSE]
  /\ pc = "query"
  /\ Locals

\* what a direct call leaves alone: the run's variables
query_frame ==
  UNCHANGED <<options, flags, input_bands, wavelengths, wavelength_to_band,
              indices_to_calc, pos, calculated, skipped, index_name,
              band_mapping, formula, output_name, calls, message, failures>>

QueryFindClosestBand ==
  /\ pc = "query"
  /\ \E target \in QueryTargets, available \in QueryLists \ {<<>>} :
       /\ query' = [NoQuery EXCEPT !.fn = "find_closest_band",
                                   !.wavelength_target = target,
                                   !.available_wavelengths = available]
       /\ result' = [NoResult EXCEPT !.closest = find_closest_band(target, available)]
  /\ pc' = "returned"
  /\ query_frame

QueryCanCalculateIndex ==
  /\ pc = "query"
  /\ \E name \in QueryNames, available \in QueryLists :
       /\ query' = [NoQuery EXCEPT !.fn = "can_calculate_index",
                                   !.index_name = name,
                                   !.available_wavelengths = available]
       /\ result' = [NoResult EXCEPT !.can = can_calculate_index(name, available)]
  /\ pc' = "returned"
  /\ query_frame

\* the dict of a list of wavelengths and the rasters b1, b2, ...
bands_of(available) ==
  dict_zip(<<>>, available, [i \in 1..Len(available) |-> band_id(i)])

\* three bands, one of them just outside a range whose far end another one
\* sits on: 691 and 620 for (620, 690), 619 and 690 likewise; and three
\* short-wave infrared bands, two in (2000, 2100) and one in (2100, 2300)
EdgeLists ==
  {<<a, b, c>> : <<a, b, c>> \in
     {t \in {620, 691, 760} \X {620, 691, 760} \X {620, 691, 760} :
        Cardinality({t[1], t[2], t[3]}) = 3}
     \cup {t \in {619, 690, 900} \X {619, 690, 900} \X {619, 690, 900} :
             Cardinality({t[1], t[2], t[3]}) = 3}
     \cup {t \in {2040, 2090, 2200} \X {2040, 2090, 2200} \X {2040, 2090, 2200} :
             Cardinality({t[1], t[2], t[3]}) = 3}}

QueryGetBandMapping ==
  /\ pc = "query"
  /\ \E name \in {n \in QueryNames : has_key(indices_db, upper(n))},
        available \in (QueryLists \ {<<>>}) \cup EdgeLists :
       /\ query' = [NoQuery EXCEPT !.fn = "get_band_mapping",
                                   !.index_name = name,
                                   !.wavelength_to_band = bands_of(available)]
       /\ result' = [NoResult EXCEPT
                       !.mapping = get_band_mapping(name, bands_of(available))]
  /\ pc' = "returned"
  /\ query_frame

\* no theme, every theme of the catalog, the option's value all and a theme
\* no index has
QueryThemes ==
  {indices_db[i].value.theme : i \in 1..Len(indices_db)}
  \cup {<<>>, S_all, <<"g","e","o","l","o","g","y">>}

QueryListIndices ==
  /\ pc = "query"
  /\ \E theme \in QueryThemes :
       /\ query' = [NoQuery EXCEPT !.fn = "list_indices", !.theme = theme]
       /\ result' = [NoResult EXCEPT !.listing = list_indices(theme)]
  /\ pc' = "returned"
  /\ query_frame

QueryGetThemes ==
  /\ pc = "query"
  /\ query' = [NoQuery EXCEPT !.fn = "get_themes"]
  /\ result' = [NoResult EXCEPT !.themes = get_themes]
  /\ pc' = "returned"
  /\ query_frame

QueryNext ==
  \/ QueryFindClosestBand
  \/ QueryCanCalculateIndex
  \/ QueryGetBandMapping
  \/ QueryListIndices
  \/ QueryGetThemes

SpecQuery == QueryInit /\ [][QueryNext]_vars

(***************************************************************************)
(* Properties                                                              *)
(***************************************************************************)
\* the catalog's definition of a name, as stored (no change of case)
is_index(name) == has_key(indices_db, name)

\* some wavelength of the list lies in [min, max], both ends included
in_range(wavelength_range, available_wavelengths) ==
  \E k \in 1..Len(available_wavelengths) :
    /\ wavelength_range[1] <= available_wavelengths[k]
    /\ available_wavelengths[k] <= wavelength_range[2]

\* twice the distance of x to the target point of a requirement
distance2(x, wavelength_target) ==
  IF Len(wavelength_target) = 2
  THEN abs(2 * x - (wavelength_target[1] + wavelength_target[2]))
  ELSE abs(2 * x - 2 * wavelength_target[1])

\* C1: can_calculate_index reports an index of the catalog as feasible if and
\* only if every role of its bands_required has a supplied wavelength w with
\* min <= w <= max.
C1_FeasibleIffEveryRoleInRange ==
  (pc = "returned" /\ query.fn = "can_calculate_index" /\ is_index(query.index_name))
  => LET req == item(indices_db, query.index_name).bands_required
     IN result.can.ok <=>
          \A j \in 1..Len(req) : in_range(req[j].range, query.available_wavelengths)

\* C2: find_closest_band returns a member of the list whose distance to the
\* target point (the centre of a range, else the single value) no member
\* undercuts; with [665, 850], (760, 900) gives 850 and (620, 690) gives 665.
C2_ClosestIsNearestMember ==
  (pc = "returned" /\ query.fn = "find_closest_band")
  => /\ \E k \in 1..Len(query.available_wavelengths) :
          query.available_wavelengths[k] = result.closest
     /\ \A k \in 1..Len(query.available_wavelengths) :
          distance2(result.closest, query.wavelength_target)
            <= distance2(query.available_wavelengths[k], query.wavelength_target)
     /\ (query.available_wavelengths = <<665, 850>> /\ query.wavelength_target = <<760, 900>>)
          => result.closest = 850
     /\ (query.available_wavelengths = <<665, 850>> /\ query.wavelength_target = <<620, 690>>)
          => result.closest = 665

\* a call with a range whose nearest member is not the first of the list, and
\* a call with a single target wavelength
C2_Witness ==
  /\ pc = "returned"
  /\ query.fn = "find_closest_band"
  /\ query.available_wavelengths = <<665, 850>>
  /\ query.wavelength_target = <<760, 900>>
  /\ result.closest = 850

\* an index is being emitted: its band mapping and formula are those of index_name
emitting == pc \in {"mapcalc", "normalize", "rename", "colors"}

\* the caller's wavelengths and bands, in the order of the options
supplied_wavelengths ==
  [i \in 1..Len(split(options.wavelengths)) |-> float(split(options.wavelengths)[i])]

supplied_bands == split(options.input)

\* no wavelength of ws is nearer the target than ws[p]
nearest(p, wavelength_target, ws) ==
  \A q \in 1..Len(ws) : distance2(ws[p], wavelength_target) <= distance2(ws[q], wavelength_target)

\* C3: among the supplied wavelengths nearest a role's target point, the role
\* is bound to the one listed first in the wavelengths option: to a band of
\* that wavelength, and to the band listed at that place when the wavelength
\* is listed once.
C3_TieGoesToEarliestListed ==
  emitting =>
    \A ws \in {supplied_wavelengths}, bands \in {supplied_bands} :
      \A j \in 1..Len(index_def.bands_required) :
        \A p \in 1..Len(ws) :
          (/\ nearest(p, index_def.bands_required[j].range, ws)
           /\ \A q \in 1..(p - 1) : ~nearest(q, index_def.bands_required[j].range, ws))
          => /\ \E q \in 1..Len(ws) :
                  /\ ws[q] = ws[p]
                  /\ item(band_mapping, index_def.bands_required[j].role) = bands[q]
             /\ (\A q \in 1..Len(ws) : q # p => ws[q] # ws[p])
                  => item(band_mapping, index_def.bands_required[j].role) = bands[p]

\* a role with two different wavelengths at the same, least distance, bound to
\* the band of the one listed first although it is the longer wavelength
C3_Witness ==
  /\ emitting
  /\ \E j \in 1..Len(index_def.bands_required) :
       \E p \in 1..Len(wavelengths), q \in 1..Len(wavelengths) :
         /\ p < q
         /\ wavelengths[p] > wavelengths[q]
         /\ nearest(p, index_def.bands_required[j].range, wavelengths)
         /\ nearest(q, index_def.bands_required[j].range, wavelengths)
         /\ \A r \in 1..Len(wavelengths) : r # p => wavelengths[r] # wavelengths[p]
         /\ item(band_mapping, index_def.bands_required[j].role) = input_bands[p]

\* C4: for an infeasible index of the catalog, can_calculate_index reports the
\* first role of bands_required without a wavelength in its range, and that
\* range; NDVI is feasible with [665, 850] and lacks NIR with [665].
C4_ReportsFirstMissingRole ==
  (pc = "returned" /\ query.fn = "can_calculate_index" /\ is_index(query.index_name))
  => \A req \in {item(indices_db, query.index_name).bands_required} :
       /\ \A j \in 1..Len(req) :
            (/\ ~in_range(req[j].range, query.available_wavelengths)
             /\ \A i \in 1..(j - 1) : in_range(req[i].range, query.available_wavelengths))
            => /\ ~result.can.ok
               /\ result.can.band_name = req[j].role
               /\ result.can.wavelength_range = req[j].range
       /\ (query.index_name = S_NDVI /\ query.available_wavelengths = <<665, 850>>)
            => result.can.ok
       /\ (query.index_name = S_NDVI /\ query.available_wavelengths = <<665>>)
            => ~result.can.ok /\ result.can.band_name = "NIR"

b1 == <<"b","1">>

b2 == <<"b","2">>

\* C5: with input=b1,b2 and wavelengths=665,850, NDVI binds RED to b1 and NIR
\* to b2, its expression is float(b2 - b1) / (b2 + b1), and every index is
\* evaluated, styled and, when normalized, renamed under <prefix>_<name>.
C5_ExpressionAndOutputName ==
  emitting =>
    /\ (/\ options.input = b1 \o <<",">> \o b2
        /\ options.wavelengths = <<"6","6","5",",","8","5","0">>
        /\ index_name = S_NDVI)
       => /\ band_mapping = <<[key |-> "RED", value |-> b1], [key |-> "NIR", value |-> b2]>>
          /\ formula = <<Text("float("), Sub(b2), Text(" - "), Sub(b1), Text(") / ("),
                         Sub(b2), Text(" + "), Sub(b1), Text(")")>>
    /\ output_name = options.output_prefix \o <<"_">> \o index_name
    /\ \A k \in 1..Len(calls) :
         /\ k = 1 => /\ calls[k].cmd = "r.mapcalc"
                     /\ calls[k].raster = options.output_prefix \o <<"_">> \o index_name
                     /\ calls[k].expression = formula
         /\ calls[k].cmd = "g.rename"
              => calls[k].raster = calls[k - 1].raster \o <<",">>
                                     \o options.output_prefix \o <<"_">> \o index_name
         /\ calls[k].cmd = "r.colors"
              => calls[k].raster = options.output_prefix \o <<"_">> \o index_name

\* NDVI of b1,b2 at 665,850, evaluated under out_NDVI, about to be styled
C5_Witness ==
  /\ pc = "colors"
  /\ options.input = b1 \o <<",">> \o b2
  /\ options.wavelengths = <<"6","6","5",",","8","5","0">>
  /\ index_name = S_NDVI
  /\ calls[1].raster = <<"o","u","t","_","N","D","V","I">>
  /\ calls[1].expression[2] = Sub(b2)

\* C6: every entry is stored under its upper-case name, no two entries share
\* a name, and a lookup by any case variant of an entry's name finds it.
C6_CanonicalNamesAreFound ==
  (pc = "returned" /\ query.fn = "can_calculate_index")
  => \A i \in 1..Len(indices_db) :
       upper(query.index_name) = upper(indices_db[i].key)
       => /\ indices_db[i].key = upper(indices_db[i].key)
          /\ \A j \in 1..Len(indices_db) :
               indices_db[j].key = indices_db[i].key => j = i
          /\ result.can.msg # "Index not found"

\* the roles a formula reads, and the roles an index declares
formula_roles(index) ==
  {index.formula[k].role : k \in {n \in 1..Len(index.formula) : index.formula[n].role # ""}}

required_roles(index) ==
  {index.bands_required[j].role : j \in 1..Len(index.bands_required)}

\* C7: for every index the run takes from the catalog (a run of all takes
\* each of them), the roles its formula reads are exactly the keys of its
\* bands_required, and the expression it emits is built from exactly the
\* rasters bound to those keys.
C7_FormulaReadsDeclaredRoles ==
  /\ (index_name # None /\ is_index(index_name))
       => formula_roles(index_def) = required_roles(index_def)
  /\ pc = "mapcalc"
       => /\ {band_mapping[j].key : j \in 1..Len(band_mapping)} = formula_roles(index_def)
          /\ {formula[k].sub : k \in {n \in 1..Len(formula) : formula[n].lit = ""}}
               = {band_mapping[j].value : j \in 1..Len(band_mapping)}

\* the last index of the catalog in a run of all of them, its formula applied
\* to the mapping of its declared roles
C7_Witness ==
  /\ pc = "mapcalc"
  /\ Len(indices_to_calc) = Len(indices_db)
  /\ Len(band_mapping) = 2
  /\ {band_mapping[j].key : j \in 1..Len(band_mapping)} = required_roles(index_def)

\* C8: a run that passed validation reaches the summary, whatever names are
\* unknown, whatever indices are infeasible and whichever engine calls fail.
C8_ValidatedRunReachesSummary == (pc = "select") ~> (pc = "summary")

\* the summary of a run in which every selected index was skipped, one of
\* them on an engine failure
C8_Witness ==
  /\ pc = "summary"
  /\ calculated = 0
  /\ failures > 0
  /\ skipped = Len(indices_to_calc)

\* C9: calculated + skipped is the number of names consumed, each name adds
\* one to exactly one of the two counters, and at the summary the sum is the
\* length of the selected list.
C9_CountsAreExact ==
  /\ [](/\ calculated + skipped = pos
        /\ pc = "summary" => calculated + skipped = Len(indices_to_calc))
  /\ [][/\ pos' \in {pos, pos + 1}
        /\ pos' = pos => (calculated' = calculated /\ skipped' = skipped)
        /\ pos' = pos + 1 =>
             \/ calculated' = calculated + 1 /\ skipped' = skipped
             \/ calculated' = calculated /\ skipped' = skipped + 1]_vars

\* the summary of a run that calculated some indices, skipped an infeasible
\* one and skipped another on an engine failure
C9_Witness ==
  /\ pc = "summary"
  /\ calculated >= 1
  /\ skipped >= 2
  /\ failures >= 1
  /\ skipped > failures
  /\ calculated + skipped = Len(indices_to_calc)

\* C10: a name that is not in the catalog leaves the run in its loop, counted
\* as skipped; NDVI with its bands available and an unknown name, in either
\* order and without engine failure, end as one calculated and one skipped.
C10_UnknownNameIsSkipped ==
  /\ (index_name # None /\ ~is_index(index_name))
       => /\ pc \in {"loop", "summary"}
          /\ skipped >= 1
          /\ message.text \in {"Index not found in database. Skipping.", "SUMMARY"}
  /\ (/\ pc = "summary"
      /\ indices_to_calc \in {<<S_NDVI, S_FOO>>, <<S_FOO, S_NDVI>>}
      /\ \A j \in 1..Len(item(indices_db, S_NDVI).bands_required) :
           in_range(item(indices_db, S_NDVI).bands_required[j].range, wavelengths)
      /\ failures = 0)
     => calculated = 1 /\ skipped = 1

\* the summary after the unknown name first and NDVI second
C10_Witness ==
  /\ pc = "summary"
  /\ indices_to_calc = <<S_FOO, S_NDVI>>
  /\ calculated = 1
  /\ skipped = 1
  /\ failures = 0

\* C11: an engine failure at any emission step counts the index as skipped,
\* never as calculated, the run goes on with the next name, and it reaches
\* the summary with every selected name consumed.
C11_EngineFailureIsSkipped ==
  /\ [][failures' = failures + 1
        => /\ pc \in {"mapcalc", "normalize", "rename", "colors"}
           /\ skipped' = skipped + 1
           /\ calculated' = calculated
           /\ pos' = pos + 1
           /\ pc' = "loop"]_vars
  /\ [](failures <= skipped)
  /\ (failures > 0) ~> (pc = "summary" /\ pos = Len(indices_to_calc))

\* an index calculated after an earlier one of the run was skipped on an
\* engine failure
C11_Witness ==
  /\ message.text = "Successfully created"
  /\ failures >= 1
  /\ calculated >= 1
  /\ skipped >= failures

\* the steps after the primary evaluation
follow_up == {"normalize", "rename", "colors"}

\* the primary call of the current index
primary_call == engine_call("r.mapcalc", output_name, formula, "")

value_count(s) == 1 + Cardinality({i \in 1..Len(s) : s[i] = ","})

\* the configuration errors of a calculation run: no input bands, no
\* wavelengths, a wavelength that is no number, or as many bands as
\* wavelengths not given
configuration_error ==
  \/ options.input = <<>>
  \/ options.wavelengths = <<>>
  \/ \E i \in 1..Len(split(options.wavelengths)) :
       float_raises(split(options.wavelengths)[i])
  \/ value_count(options.input) # value_count(options.wavelengths)

\* nothing of the calculation has happened: no selection, no index resolved,
\* no engine call
nothing_processed ==
  /\ indices_to_calc = None
  /\ index_name = None
  /\ band_mapping = None
  /\ formula = None
  /\ calls = <<>>
  /\ pos = 0 /\ calculated = 0 /\ skipped = 0

\* C13: a calculation run with a configuration error ends at the fatal error
\* with no index resolved and no engine call made, and takes no step after it.
C13_ConfigurationErrorAborts ==
  /\ []((configuration_error /\ ~flags.l)
          => (pc \in {"parser", "fatal"} /\ nothing_processed))
  /\ []((configuration_error /\ ~flags.l /\ pc = "fatal")
          => message.text \in {"Required parameter <input> not set",
                               "Required parameter <wavelengths> not set",
                               "Required parameter <output_prefix> not set",
                               "Invalid wavelength values",
                               "Number of input bands must match number of wavelengths"})
  /\ [][pc # "fatal"]_vars

\* a run stopped at the count check: two bands, three wavelengths or the like
C13_Witness ==
  /\ pc = "fatal"
  /\ message.text = "Number of input bands must match number of wavelengths"
  /\ options.input # <<>>
  /\ nothing_processed

\* the selection has been made
selected == pc \in {"loop", "mapcalc", "normalize", "rename", "colors", "summary"}

\* the names of a list, as a set
as_set(names) == {names[i] : i \in 1..Len(names)}

\* the names of the catalog, and those of one theme
all_names == {indices_db[i].value.name : i \in 1..Len(indices_db)}

theme_members(theme) ==
  {indices_db[i].value.name :
     i \in {n \in 1..Len(indices_db) : indices_db[n].value.theme = theme}}

\* the k-th comma-separated value of an option, without the spaces around it
\* and in upper case
explicit_name(s, k) ==
  LET commas == {i \in 1..Len(s) : s[i] = ","}
      before(i) == Cardinality({c \in commas : c < i})
      chars == SelectSeq([i \in 1..Len(s) |-> IF s[i] # "," /\ before(i) = k - 1
                                               THEN s[i] ELSE ","],
                         LAMBDA c : c # ",")
  IN upper(strip(chars))

\* C14: the selected list comes from one source: with a theme it is the
\* members of the theme, each once, whatever indices= says; without a theme
\* and with indices=all it is the catalog, each entry once; otherwise it is
\* the comma-separated names of indices=, in their order and in upper case.
C14_OneSelectionMode ==
  selected =>
    IF options.theme # <<>>
    THEN /\ as_set(indices_to_calc) = theme_members(options.theme)
         /\ Len(indices_to_calc) = Cardinality(theme_members(options.theme))
    ELSE IF lower(options.indices) = S_all
    THEN /\ as_set(indices_to_calc) = all_names
         /\ Len(indices_to_calc) = Cardinality(all_names)
    ELSE /\ Len(indices_to_calc) = value_count(options.indices)
         /\ \A k \in 1..Len(indices_to_calc) :
              indices_to_calc[k] = explicit_name(options.indices, k)

\* theme=vegetation beside indices=all: the 14 members of the theme and no
\* other entry of the catalog
C14_Witness ==
  /\ selected
  /\ options.theme = S_vegetation
  /\ options.indices = S_all
  /\ as_set(indices_to_calc) = theme_members(S_vegetation)
  /\ as_set(indices_to_calc) # all_names

\* C15: indices=all, in any letter case and with no theme, selects every
\* entry of the catalog exactly once.
C15_AllSelectsWholeCatalog ==
  (selected /\ options.theme = <<>> /\ lower(options.indices) = S_all)
  => /\ as_set(indices_to_calc) = as_set(keys(indices_db))
     /\ Len(indices_to_calc) = Len(indices_db)
     /\ Cardinality(as_set(indices_to_calc)) = Len(indices_to_calc)

\* the summary of a run of indices=All
C15_Witness ==
  /\ pc = "summary"
  /\ options.theme = <<>>
  /\ options.indices = <<"A","l","l">>
  /\ pos = Len(indices_db)

\* C16: theme=all selects every index of the catalog.
C16_ThemeAllSelectsWholeCatalog ==
  (selected /\ options.theme = S_all)
  => as_set(indices_to_calc) = all_names

\* C17: a theme name given as indices= selects the indices of that theme.
C17_IndicesAcceptsThemeName ==
  (selected /\ options.theme = <<>> /\ options.indices = S_vegetation)
  => as_set(indices_to_calc) = theme_members(S_vegetation)

\* C18: list_indices(theme) returns definitions of the catalog, those of the
\* theme when one is given and all of them when none is, in ascending order
\* of their names, so none twice.
C18_ListIndicesFiltersAndSorts ==
  (pc = "returned" /\ query.fn = "list_indices")
  => /\ \A k \in 1..Len(result.listing) :
          \E i \in 1..Len(indices_db) : result.listing[k] = indices_db[i].value
     /\ {result.listing[k].name : k \in 1..Len(result.listing)}
          = IF query.theme = <<>> THEN all_names ELSE theme_members(query.theme)
     /\ \A k \in 1..(Len(result.listing) - 1) :
          str_less(result.listing[k].name, result.listing[k + 1].name)

\* the three water indices, in the order of their names
C18_Witness ==
  /\ pc = "returned"
  /\ query.fn = "list_indices"
  /\ query.theme = S_water
  /\ Len(result.listing) = 3
  /\ str_less(result.listing[1].name, result.listing[3].name)

\* the themes the specification enumerates
NineThemes ==
  {<<"v","e","g","e","t","a","t","i","o","n">>,
   <<"p","i","g","m","e","n","t","s">>,
   <<"m","e","t","a","b","o","l","i","s","m">>,
   <<"b","i","o","c","h","e","m","i","c","a","l">>,
   <<"w","a","t","e","r">>,
   <<"s","o","i","l">>,
   <<"u","r","b","a","n">>,
   <<"s","t","r","e","s","s">>,
   <<"m","a","t","e","r","i","a","l","s">>}

\* the names list_indices gives for a theme
listed_names(theme) ==
  {list_indices(theme)[k].name : k \in 1..Len(list_indices(theme))}

\* C19: every entry has one of the nine themes, list_indices(t) is exactly
\* the entries of theme t, and over the themes get_themes returns the lists
\* are pairwise disjoint and together the whole catalog.
C19_ThemesPartitionCatalog ==
  (pc = "returned" /\ query.fn = "get_themes")
  => /\ \A i \in 1..Len(indices_db) : indices_db[i].value.theme \in NineThemes
     /\ \A t \in as_set(result.themes) :
          /\ listed_names(t) = theme_members(t)
          /\ Len(list_indices(t)) = Cardinality(theme_members(t))
     /\ \A t \in as_set(result.themes) : \A u \in as_set(result.themes) :
          t # u => listed_names(t) \cap listed_names(u) = {}
     /\ UNION {listed_names(t) : t \in as_set(result.themes)} = all_names

\* get_themes has returned the nine themes, in ascending order
C19_Witness ==
  /\ pc = "returned"
  /\ query.fn = "get_themes"
  /\ Len(result.themes) = 9
  /\ as_set(result.themes) = NineThemes
  /\ \A k \in 1..8 : str_less(result.themes[k], result.themes[k + 1])

\* the counts of the docstring of _initialize_indices
documented_counts ==
  <<[theme |-> <<"v","e","g","e","t","a","t","i","o","n">>, count |-> 15],
     [theme |-> <<"p","i","g","m","e","n","t","s">>, count |-> 16],
     [theme |-> <<"m","e","t","a","b","o","l","i","s","m">>, count |-> 13],
     [theme |-> <<"b","i","o","c","h","e","m","i","c","a","l">>, count |-> 6],
     [theme |-> <<"w","a","t","e","r">>, count |-> 3],
     [theme |-> <<"s","o","i","l">>, count |-> 3],
     [theme |-> <<"u","r","b","a","n">>, count |-> 2],
     [theme |-> <<"s","t","r","e","s","s">>, count |-> 4],
     [theme |-> <<"m","a","t","e","r","i","a","l","s">>, count |-> 24]>>

\* C20: list_indices gives the documented number of indices for each theme,
\* 15 for vegetation, and 86 or more with no theme.
C20_DocumentedCounts ==
  (pc = "returned" /\ query.fn = "list_indices")
  => /\ \A d \in 1..Len(documented_counts) :
          query.theme = documented_counts[d].theme
          => Len(result.listing) = documented_counts[d].count
     /\ query.theme = <<>> => Len(result.listing) >= 86

\* the integer a decimal numeral stands for, with its sign
int_of(numeral) ==
  IF numeral # <<>> /\ Head(numeral) = "-"
  THEN -digits_value(Tail(numeral), 0)
  ELSE digits_value(numeral, 0)

\* the shape "(<raster> - <n>) / (<n> - <n>)" of an expression
is_rescaling(expression) ==
  /\ Len(expression) = 9
  /\ <<expression[1].lit, expression[3].lit, expression[5].lit,
       expression[7].lit, expression[9].lit>> = <<"(", " - ", ") / (", " - ", ")">>
  /\ \A k \in {2, 4, 6, 8} : expression[k].lit = ""

\* numerator and denominator of a rescaling expression where its raster holds v
numerator(expression, v) == v - int_of(expression[4].sub)

denominator(expression) == int_of(expression[6].sub) - int_of(expression[8].sub)

\* C21: with the n flag and a normalize_range (lo, hi), the primary success is
\* followed by the evaluation of (output - lo) / (hi - lo) over the output and
\* by the rename of its result over the output name; it takes lo to 0, hi to
\* 1 and, for (-1, 1), 0 to 0.5.
C21_NormalizationRescales ==
  /\ [](pc \in {"rename", "colors"} /\ flags.n /\ index_def.normalize_range # None
         => /\ Len(calls) >= 2
            /\ calls[1] = primary_call
            /\ calls[2].cmd = "r.mapcalc"
            /\ calls[2].raster = temp_name_of(output_name)
            /\ is_rescaling(calls[2].expression)
            /\ calls[2].expression[2].sub = output_name
            /\ denominator(calls[2].expression) > 0
            /\ numerator(calls[2].expression, index_def.normalize_range[1]) = 0
            /\ numerator(calls[2].expression, index_def.normalize_range[2])
                 = denominator(calls[2].expression)
            /\ index_def.normalize_range = <<-1, 1>>
                 => 2 * numerator(calls[2].expression, 0)
                      = denominator(calls[2].expression))
  /\ [](pc = "colors" /\ flags.n /\ index_def.normalize_range # None
         => /\ Len(calls) = 3
            /\ calls[3].cmd = "g.rename"
            /\ calls[3].raster = temp_name_of(output_name) \o <<",">> \o output_name)
  /\ [][(pc = "mapcalc" /\ pc' \in follow_up /\ flags.n
          /\ index_def.normalize_range # None) => pc' = "normalize"]_vars
  /\ [][pc = "normalize" => pc' \in {"rename", "loop"}]_vars
  /\ [][pc = "rename" => pc' \in {"colors", "loop"}]_vars

\* NDWI normalized and renamed, its colour table next
C21_Witness ==
  /\ pc = "colors"
  /\ flags.n
  /\ index_def.normalize_range = <<-1, 1>>
  /\ index_def.theme = S_water
  /\ Len(calls) = 3
  /\ calls[3].cmd = "g.rename"

\* C22: with the n flag and an index that has no normalize_range, no
\* normalization expression is evaluated and nothing is renamed: the calls of
\* the iteration are the primary one and the colour table, and the index is
\* counted calculated once both succeeded.
C22_NoRangeNoNormalization ==
  /\ [](emitting /\ flags.n /\ index_def.normalize_range = None
         => /\ pc \in {"mapcalc", "colors"}
            /\ \A k \in 1..Len(calls) :
                 /\ calls[k].cmd # "g.rename"
                 /\ calls[k].cmd = "r.mapcalc" => calls[k] = primary_call /\ k = 1)
  /\ [][(pc = "mapcalc" /\ flags.n /\ index_def.normalize_range = None)
          => \/ pc' = "colors" /\ calls' = <<primary_call>>
             \/ pc' = "loop" /\ skipped' = skipped + 1
                  /\ calculated' = calculated]_vars
  /\ [][(pc = "colors" /\ flags.n /\ index_def.normalize_range = None
          /\ message'.text # "Failed to calculate")
          => /\ calculated' = calculated + 1
             /\ skipped' = skipped
             /\ message'.text = "Successfully created"
             /\ Len(calls') = 2
             /\ calls'[1] = primary_call
             /\ calls'[2].cmd = "r.colors"]_vars

\* DVI, which has no range, counted calculated in a run with the n flag
C22_Witness ==
  /\ pc = "loop"
  /\ flags.n
  /\ message.text = "Successfully created"
  /\ index_name = <<"D", "V", "I">>
  /\ index_def.normalize_range = None
  /\ Len(calls) = 2
  /\ calculated >= 1

\* the colour table the theme alone stands for
theme_color(theme) ==
  IF theme = S_vegetation THEN "ndvi"
  ELSE IF theme = S_water THEN "water"
  ELSE "viridis"

\* the colour-table requests among the calls of the iteration
color_requests == {k \in 1..Len(calls) : calls[k].cmd = "r.colors"}

\* C23: the colour table of a calculated index is the one of its theme
\* (vegetation: ndvi, water: water, any other: viridis), for every entry of
\* the catalog, and every calculated index had exactly one colour request, the
\* last call of its iteration, on its output raster.
C23_ColorFollowsTheme ==
  /\ [](pc = "colors"
         => /\ color_of(index_name, index_def) = theme_color(index_def.theme)
            /\ \A k \in 1..Len(indices_db) :
                 color_of(indices_db[k].key, indices_db[k].value)
                   = theme_color(indices_db[k].value.theme)
            /\ color_requests = {})
  /\ [](Cardinality(color_requests) <= 1)
  /\ [][calculated' # calculated
          => /\ calculated' = calculated + 1
             /\ pc = "colors"
             /\ Len(calls') = Len(calls) + 1
             /\ calls'[Len(calls')].cmd = "r.colors"
             /\ calls'[Len(calls')].raster = output_name
             /\ calls'[Len(calls')].color = theme_color(index_def.theme)
             /\ \A k \in 1..Len(calls) : calls'[k] = calls[k]]_vars

\* NDWI, of the water theme, calculated with the water colour table
C23_Witness ==
  /\ pc = "loop"
  /\ message.text = "Successfully created"
  /\ index_def.theme = S_water
  /\ color_requests = {Len(calls)}
  /\ calls[Len(calls)].color = "water"

\* RDVI, of the pigments theme, calculated with the viridis colour table
C23_WitnessOther ==
  /\ pc = "loop"
  /\ message.text = "Successfully created"
  /\ index_def.theme \notin {S_vegetation, S_water}
  /\ calls[Len(calls)].color = "viridis"

\* the last place a wavelength is listed at
last_listed(w) == CHOOSE i \in 1..Len(wavelengths) :
  /\ wavelengths[i] = w
  /\ \A j \in 1..Len(wavelengths) : wavelengths[j] = w => j <= i

\* the validated input is in place
validated == pc \in {"select", "loop", "mapcalc", "normalize", "rename", "colors", "summary"}

\* C24: a wavelength listed for several bands does not end the run; the
\* wavelength-to-band mapping holds one entry for it, bound to the band listed
\* last with it, and a role resolved to it is bound to that band: a band
\* listed earlier with the same wavelength takes no part in any formula.
C24_LaterDuplicateBandWins ==
  /\ [](validated
         => /\ Len(wavelength_to_band)
                 = Cardinality({wavelengths[i] : i \in 1..Len(wavelengths)})
            /\ \A i \in 1..Len(wavelengths) :
                 /\ Cardinality({k \in 1..Len(wavelength_to_band) :
                                   wavelength_to_band[k].key = wavelengths[i]}) = 1
                 /\ get(wavelength_to_band, wavelengths[i])
                      = input_bands[last_listed(wavelengths[i])])
  /\ [](emitting
         => \A r \in 1..Len(band_mapping) :
              \E i \in 1..Len(wavelengths) :
                /\ i = last_listed(wavelengths[i])
                /\ band_mapping[r].value = input_bands[i])
  /\ [][(pc = "parser" /\ ~flags.l /\ ~configuration_error
          /\ options.output_prefix # <<>>) => pc' = "select"]_vars

\* 645 listed for b1 and for b2: RED of the index is bound to b2
C24_Witness ==
  /\ pc = "mapcalc"
  /\ Len(wavelengths) = 3
  /\ wavelengths[1] = wavelengths[2]
  /\ wavelengths[1] = 645
  /\ Len(wavelength_to_band) = 2
  /\ \E r \in 1..Len(band_mapping) : band_mapping[r].value = band_id(2)

\* the binding of an index as the caller's wavelengths and bands alone give it
binding_of(index) ==
  [j \in 1..Len(index.bands_required) |->
     [key |-> index.bands_required[j].role,
      value |-> input_bands[last_listed(
                  find_closest_band(index.bands_required[j].range, wavelengths))]]]

\* C25: the resolver's queries and the calculation loop leave the caller's
\* wavelength-to-band mapping (and the bands and wavelengths it was built
\* from) as validation made them, and the binding of an index is a function
\* of the index and of that input alone: what was processed before it in the
\* run leaves no trace in it.  (The catalog is written by
\* _initialize_indices only.)
C25_ResolverLeavesInputsAlone ==
  /\ [][validated => /\ wavelength_to_band' = wavelength_to_band
                      /\ input_bands' = input_bands
                      /\ wavelengths' = wavelengths
                      /\ options' = options]_vars
  /\ [](validated => /\ wavelengths = supplied_wavelengths
                      /\ input_bands = supplied_bands
                      /\ keys(wavelength_to_band) \in Seq(Int)
                      /\ \A i \in 1..Len(wavelengths) :
                           has_key(wavelength_to_band, wavelengths[i]))
  /\ [](emitting => band_mapping = binding_of(index_def))
  /\ [][(pc = "loop" /\ pc' = "loop") => band_mapping' = band_mapping]_vars

\* NDRE resolved after GNDVI was calculated: no GREEN in its binding
C25_Witness ==
  /\ pc = "mapcalc"
  /\ calculated >= 1
  /\ index_name = <<"N", "D", "R", "E">>
  /\ keys(band_mapping) = <<"REDEDGE", "NIR">>
  /\ band_mapping[1].value = band_id(2)

\* C26: a formula is applied only in an iteration whose feasibility check
\* succeeded: the name is in the catalog, as typed and in upper case, every
\* required range holds a supplied wavelength, and the keys of the binding
\* handed to the formula are exactly the required roles.  The band mapping is
\* never asked for a name the catalog lacks.
C26_FormulaOnlyAfterFeasibility ==
  /\ [](emitting
         => /\ index_name = indices_to_calc[pos + 1]
            /\ is_index(index_name)
            /\ has_key(indices_db, upper(index_name))
            /\ \A j \in 1..Len(index_def.bands_required) :
                 in_range(index_def.bands_required[j].range, wavelengths)
            /\ Len(band_mapping) = Len(index_def.bands_required)
            /\ {band_mapping[j].key : j \in 1..Len(band_mapping)}
                 = required_roles(index_def)
            /\ Len(formula) = Len(index_def.formula))
  /\ [][(formula' # formula \/ band_mapping' # band_mapping)
          => /\ pc = "loop"
             /\ pc' = "mapcalc"
             /\ index_name' = indices_to_calc[pos + 1]
             /\ has_key(indices_db, upper(index_name'))]_vars
  /\ [][(pc = "loop" /\ pos' = pos + 1) => formula' = formula /\ calls' = <<>>]_vars

\* an index resolved after the unknown name FOO was skipped
C26_Witness ==
  /\ pc = "mapcalc"
  /\ skipped >= 1
  /\ is_index(index_name)
  /\ \E k \in 1..pos : ~is_index(indices_to_calc[k])
  /\ {band_mapping[j].key : j \in 1..Len(band_mapping)} = required_roles(index_def)

\* the index a returned query named
queried_index == item(indices_db, upper(query.index_name))

\* the wavelengths the caller's mapping lists for a band
wavelengths_of(band) ==
  {query.wavelength_to_band[k].key :
     k \in {n \in 1..Len(query.wavelength_to_band) :
              query.wavelength_to_band[n].value = band}}

\* two ranges with no wavelength in common
disjoint(r1, r2) == r1[2] < r2[1] \/ r2[2] < r1[1]

\* C27: when every role of an index has a wavelength in its range, each role
\* is bound to a band whose wavelength lies in the role's own range, although
\* the search runs over all wavelengths; two roles with disjoint ranges are
\* then bound to different bands.
C27_BoundBandLiesInRange ==
  (/\ pc = "returned"
   /\ query.fn = "get_band_mapping"
   /\ \A j \in 1..Len(queried_index.bands_required) :
        in_range(queried_index.bands_required[j].range, keys(query.wavelength_to_band)))
  => /\ Len(result.mapping) = Len(queried_index.bands_required)
     /\ \A j \in 1..Len(queried_index.bands_required) :
          /\ result.mapping[j].key = queried_index.bands_required[j].role
          /\ wavelengths_of(result.mapping[j].value) # {}
          /\ \A w \in wavelengths_of(result.mapping[j].value) :
               /\ queried_index.bands_required[j].range[1] <= w
               /\ w <= queried_index.bands_required[j].range[2]
          /\ \A k \in 1..Len(queried_index.bands_required) :
               disjoint(queried_index.bands_required[j].range,
                        queried_index.bands_required[k].range)
               => result.mapping[j].value # result.mapping[k].value

\* NDVI with 691, 620 and 760: 691 lies one nanometre outside RED (620, 690)
\* and is listed first, 620 is its far end, and RED is bound to the band of 620
C27_Witness ==
  /\ pc = "returned"
  /\ query.fn = "get_band_mapping"
  /\ query.index_name = S_NDVI
  /\ keys(query.wavelength_to_band) = <<691, 620, 760>>
  /\ result.mapping = <<[key |-> "RED", value |-> band_id(2)],
                        [key |-> "NIR", value |-> band_id(3)]>>

\* the run takes its names from the catalog: a theme, or indices=all
catalog_selected == options.theme # <<>> \/ lower(options.indices) = S_all

\* C28: every index of the catalog can be calculated: taken from the catalog
\* by a theme or by all, with a supplied wavelength in the range of each of
\* its roles and no engine failure, it is counted calculated and is not
\* skipped as not found.
C28_EveryCatalogIndexCalculable ==
  (/\ pc = "loop"
   /\ pos >= 1
   /\ catalog_selected
   /\ index_name = indices_to_calc[pos]
   /\ is_index(index_name)
   /\ \A j \in 1..Len(index_def.bands_required) :
        in_range(index_def.bands_required[j].range, wavelengths)
   /\ message.text # "Failed to calculate")
  => /\ message.text = "Successfully created"
     /\ calculated >= 1

\* C29: no index declares two roles with the same wavelength range: for a
\* feasible input, two distinct roles of the index asked for have different
\* ranges, so that no pair of roles is bound to one band whatever the input.
C29_RolesHaveDistinctRanges ==
  (/\ pc = "returned"
   /\ query.fn = "get_band_mapping"
   /\ \A j \in 1..Len(queried_index.bands_required) :
        in_range(queried_index.bands_required[j].range, keys(query.wavelength_to_band)))
  => \A j, k \in 1..Len(queried_index.bands_required) :
       j # k => queried_index.bands_required[j].range
                  # queried_index.bands_required[k].range

====
